---- MODULE Spec2Model ----
(***************************************************************************)
(* State-machine model of the asynchronous log-record pipeline of          *)
(* lixenwraith/logger: producers calling log/sendLogRecord, the            *)
(* processLogs goroutines, initLogger/shutdownLogger and the storage       *)
(* helpers they call.  Sizes are counted in units of 1/MB megabyte.        *)
(***************************************************************************)
EXTENDS Integers, Sequences, FiniteSets, TLC

(* ---------------------------- bounds ---------------------------------- *)
\* producer goroutines
NumProducers == 2
\* log calls each producer makes
MaxCalls == 2
\* calls of Init (first initialisation and reconfigurations)
MaxInits == 2
\* calls of Shutdown
MaxShutdowns == 2
\* size units per megabyte (1024*1024 bytes in the source)
MB == 2
\* largest serialized record length, in size units
MaxLen == 2
\* largest free-space deficit the environment presents, in size units
MaxDeficit == 1
\* largest free-space deficit where eviction order is examined
BigDeficit == 3
\* most log files left in the directory by earlier runs
MaxOld == 3
\* most files in the directory when retention is examined
RetOld == 2
\* longest string argument, in bytes, and most arguments of a call
MaxStr == 2
MaxArgs == 2
\* parts an hour (a minute) is divided in: retention settings are floats
\* and are counted in 1/Parts hour (minute)
Parts == 2

(* ----------------------- program constants ---------------------------- *)
LevelDebug == -4
LevelInfo == 0
LevelWarn == 4
LevelError == 8
DefaultBufferSize == 1024
DefaultMaxSizeMB == 10
DefaultMaxTotalSizeMB == 50
DefaultMinDiskFreeMB == 100
DefaultTraceDepth == 0
DefaultRetentionPeriod == 0
DefaultRetentionCheckInterval == 60
FallbackBufferSize == 1000
MaxTraceDepth == 10
FlagShowTimestamp == 1
FlagShowLevel == 2

Producers == 1..NumProducers
\* a single producer goroutine
Solo == {1}
Consumers == 1..MaxInits
Nil == 0

\* length of the serialized synthetic drop-summary record
DropLen == 1

VARIABLES
  \* lifecycle flags and locks (part_010:14-22)
  isInitialized, loggerDisabled,
  \* running configuration (part_008:16-30, storage.go:16-29)
  logLevel, bufferSize, maxSizeMB, maxTotalSizeMB, minDiskFreeMB, traceDepth,
  \* retention durations, in 1/Parts hour and 1/Parts minute (storage.go:27-28)
  retentionPeriod, retentionCheck,
  \* channel objects and the package-level reference to the current one
  chans, logChannel,
  \* cancelled process contexts and the package-level current one
  ctxDone, processCtx,
  \* files on disk / their handles, the active file and its tracked size
  files, currentFile, currentSize, clock,
  \* drop accounting and the disk-full flag
  droppedLogs, loggedDrops, diskFullLogged,
  \* producers: position in log(), locals, contexts
  ppc, pcalls, prec, pcur, plogged, pctxDone,
  \* processLogs goroutines: position, channel/context the select waits on,
  \* record in hand, old-size estimate, new file of a running rotation
  cpc, cchan, cctx, crec, cnew,
  \* retention: the watermark (0 = zero time) and, per goroutine, whether
  \* its retention ticker exists (storage.go:29, part_008:156-163)
  earliestFileTime, cret,
  \* the serializer: its buffer and the call it serves (format.go:15-17)
  serial,
  \* one createNewLogFile call examined on its own: arguments, position,
  \* the directory's names and the result (part_013:308-373)
  naming,
  \* controller (caller of Init / Shutdown, holder of mu)
  ctl, ctlCfg, ctlNew, ctlRes, nInits, nShutdowns,
  \* history: every successful write, in order; counters and snapshots
  \* the properties refer to
  wlog, hist

vars == << isInitialized, loggerDisabled, logLevel, bufferSize, maxSizeMB,
           maxTotalSizeMB, minDiskFreeMB, traceDepth, retentionPeriod,
           retentionCheck, chans, logChannel,
           ctxDone, processCtx, files, currentFile, currentSize, clock,
           droppedLogs, loggedDrops, diskFullLogged,
           ppc, pcalls, prec, pcur, plogged, pctxDone,
           cpc, cchan, cctx, crec, cnew, earliestFileTime, cret, serial, naming,
           ctl, ctlCfg, ctlNew, ctlRes, nInits, nShutdowns, wlog, hist >>

cfgVars == << logLevel, bufferSize, maxSizeMB, maxTotalSizeMB, minDiskFreeMB, traceDepth,
             retentionPeriod, retentionCheck >>
prodVars == << ppc, pcalls, prec, pcur, plogged >>
consVars == << cpc, cchan, cctx, crec, cnew >>
ctlVars == << ctl, ctlCfg, ctlNew, ctlRes, nInits, nShutdowns >>
retVars == << earliestFileTime, cret >>
fileVars == << files, currentFile, currentSize, clock >>
dropVars == << droppedLogs, loggedDrops >>

NoRec == [p |-> 0, n |-> 0, syn |-> FALSE, lv |-> 0, len |-> 0, dc |-> 0, td |-> 0]

Min(a, b) == IF a < b THEN a ELSE b
Max(a, b) == IF a > b THEN a ELSE b

(* ------------------------- pure helpers ------------------------------- *)
\* getConfigValue: the zero value of the override keeps the base value
getConfigValue(defaultVal, cfgVal) == IF cfgVal = 0 THEN defaultVal ELSE cfgVal

mergeConfigs(base, override) ==
  [ Level          |-> getConfigValue(base.Level, override.Level),
    BufferSize     |-> getConfigValue(base.BufferSize, override.BufferSize),
    MaxSizeMB      |-> getConfigValue(base.MaxSizeMB, override.MaxSizeMB),
    MaxTotalSizeMB |-> getConfigValue(base.MaxTotalSizeMB, override.MaxTotalSizeMB),
    MinDiskFreeMB  |-> getConfigValue(base.MinDiskFreeMB, override.MinDiskFreeMB),
    TraceDepth     |-> getConfigValue(base.TraceDepth, override.TraceDepth),
    RetentionPeriod |-> getConfigValue(base.RetentionPeriod, override.RetentionPeriod),
    RetentionCheckInterval |->
      getConfigValue(base.RetentionCheckInterval, override.RetentionCheckInterval) ]

defaultConfig ==
  [ Level |-> LevelInfo, BufferSize |-> DefaultBufferSize,
    MaxSizeMB |-> DefaultMaxSizeMB, MaxTotalSizeMB |-> DefaultMaxTotalSizeMB,
    MinDiskFreeMB |-> DefaultMinDiskFreeMB, TraceDepth |-> DefaultTraceDepth,
    RetentionPeriod |-> DefaultRetentionPeriod * Parts,
    RetentionCheckInterval |-> DefaultRetentionCheckInterval * Parts ]

\* float64(d / time.Hour), float64(d / time.Minute): the division of a
\* time.Duration is an integer division, so the value read back is a
\* whole number of hours (minutes)
WholeUnits(d) == (d \div Parts) * Parts

\* the running configuration read back by configLogger before merging
currentCfg ==
  [ Level |-> logLevel, BufferSize |-> bufferSize, MaxSizeMB |-> maxSizeMB,
    MaxTotalSizeMB |-> maxTotalSizeMB, MinDiskFreeMB |-> minDiskFreeMB,
    TraceDepth |-> traceDepth,
    RetentionPeriod |-> WholeUnits(retentionPeriod),
    RetentionCheckInterval |-> WholeUnits(retentionCheck) ]

\* configurations a caller passes to Init (zero = "not set")
UserConfigs ==
  { [ Level |-> l, BufferSize |-> b, MaxSizeMB |-> m, MaxTotalSizeMB |-> 0,
      MinDiskFreeMB |-> 0, TraceDepth |-> t, RetentionPeriod |-> 0,
      RetentionCheckInterval |-> 0 ] :
      l \in {0, LevelDebug}, b \in {-1, 1, 2}, m \in {0, 1}, t \in {0, MaxTraceDepth + 1} }

\* configurations that only size the channel and the file cap
SizeConfigs ==
  { [ Level |-> 0, BufferSize |-> b, MaxSizeMB |-> 1, MaxTotalSizeMB |-> 0,
      MinDiskFreeMB |-> 0, TraceDepth |-> 0, RetentionPeriod |-> 0,
      RetentionCheckInterval |-> 0 ] : b \in {1, 2} }

\* the configuration that sets nothing
ZeroConfig ==
  [ Level |-> 0, BufferSize |-> 0, MaxSizeMB |-> 0, MaxTotalSizeMB |-> 0,
    MinDiskFreeMB |-> 0, TraceDepth |-> 0, RetentionPeriod |-> 0,
    RetentionCheckInterval |-> 0 ]

\* configurations that set any subset of the fields; Level 0 is LevelInfo,
\* retention values include fractions of an hour and of a minute
FieldConfigs ==
  { [ Level |-> l, BufferSize |-> b, MaxSizeMB |-> m, MaxTotalSizeMB |-> x,
      MinDiskFreeMB |-> f, TraceDepth |-> t, RetentionPeriod |-> rp,
      RetentionCheckInterval |-> rc ] :
      l \in {LevelInfo, LevelDebug}, b \in {0, 2}, m \in {0, 1}, x \in {0, 1},
      f \in {0, 1}, t \in {0, 1}, rp \in {0, Parts + 1}, rc \in {0, 1} }

\* levels producers log at
Levels == {LevelDebug, LevelError}

\* what a running logger consists of: the configuration values, the
\* active file, the channel and the consumer's context (part_008:16-30,
\* storage.go:16-29)
RunningState ==
  [ running |-> isInitialized, cfg |-> cfgVars, file |-> currentFile,
    chan |-> logChannel,
    open |-> (logChannel # Nil /\ ~chans[logChannel].closed),
    ctx |-> processCtx,
    alive |-> (processCtx # Nil /\ processCtx \notin ctxDone) ]

(* ------------------------- files on disk ------------------------------ *)
FileIds == DOMAIN files
Existing == {f \in FileIds : files[f].exists}

RECURSIVE SumSizes(_, _)
SumSizes(fs, S) ==
  IF S = {} THEN 0
  ELSE LET f == CHOOSE x \in S : TRUE IN fs[f].size + SumSizes(fs, S \ {f})

\* getLogDirSize: total size of the .log files of the directory
getLogDirSize(fs) == SumSizes(fs, {f \in DOMAIN fs : fs[f].exists})

\* a sort that puts the newest file first
RECURSIVE SortNewestFirst(_, _)
SortNewestFirst(fs, S) ==
  IF S = {} THEN << >>
  ELSE LET f == CHOOSE x \in S : \A y \in S : fs[x].mod >= fs[y].mod
       IN << f >> \o SortNewestFirst(fs, S \ {f})

\* sort.Slice by modification time, oldest first; a short list is sorted
\* by insertion, so equal times keep the listing order
RECURSIVE SortByMod(_, _)
SortByMod(fs, S) ==
  IF S = {} THEN << >>
  ELSE LET f == CHOOSE x \in S : \A y \in S :
                  fs[x].mod < fs[y].mod \/ (fs[x].mod = fs[y].mod /\ x <= y)
       IN << f >> \o SortByMod(fs, S \ {f})

\* the deletion loop of cleanOldLogs over the sorted list: returns the
\* files removed; rmFail are the files whose os.Remove fails
RECURSIVE RemoveLoop(_, _, _, _, _)
RemoveLoop(fs, logs, required, rmFail, deleted) ==
  IF logs = << >> \/ deleted >= required THEN [removed |-> {}, deleted |-> deleted]
  ELSE LET f == Head(logs) IN
       IF f \in rmFail
       THEN RemoveLoop(fs, Tail(logs), required, rmFail, deleted)
       ELSE LET r == RemoveLoop(fs, Tail(logs), required, rmFail, deleted + fs[f].size)
            IN [removed |-> r.removed \cup {f}, deleted |-> r.deleted]

\* cleanOldLogs: [err, removed]
cleanOldLogs(fs, cur, required, rmFail) ==
  LET logs == {f \in DOMAIN fs : fs[f].exists /\ f # cur} IN
  IF logs = {} THEN [err |-> TRUE, removed |-> {}]
  ELSE LET r == RemoveLoop(fs, SortByMod(fs, logs), required, rmFail, 0)
       IN [err |-> r.deleted < required, removed |-> r.removed]

\* a closed .log file left in the directory (own: its name starts with
\* the configured prefix)
OldFile(size, mod, own) ==
  [exists |-> TRUE, open |-> FALSE, size |-> size, mod |-> mod, by |-> 0, inst |-> 0,
   own |-> own]

\* directories of up to MaxOld log files left by earlier runs, in any
\* listing order, with distinct modification times
OldDirs ==
  UNION { { [i \in 1..n |-> OldFile(sz[i], md[i], TRUE)] :
              sz \in [1..n -> 1..MB],
              md \in {m \in [1..n -> 1..n] : \A i, j \in 1..n : m[i] = m[j] => i = j} } :
          n \in 0..MaxOld }

\* directories of up to RetOld log files, of this logger or with another
\* base name, whose modification times may coincide
RetDirs ==
  UNION { { [i \in 1..n |-> OldFile(1, md[i], ow[i])] :
              md \in [1..n -> 1..n], ow \in [1..n -> BOOLEAN] } :
          n \in 0..RetOld }

\* an updateEarliestFileTime that does not look at the prefix
updateEarliestAnyName(fs, cur) ==
  LET E == {f \in DOMAIN fs : fs[f].exists /\ f # cur} IN
  IF E = {} THEN 0
  ELSE fs[CHOOSE f \in E : \A g \in E : fs[f].mod <= fs[g].mod].mod

\* updateEarliestFileTime: the oldest modification time among the files
\* with the prefix and the extension, the active file left out; the zero
\* time when there is none (storage.go:169-219)
updateEarliestFileTime(fs, cur) ==
  LET E == {f \in DOMAIN fs : fs[f].exists /\ fs[f].own /\ f # cur} IN
  IF E = {} THEN 0
  ELSE fs[CHOOSE f \in E : \A g \in E : fs[f].mod <= fs[g].mod].mod

\* the loop of cleanExpiredLogs over the listing, from entry i on
RECURSIVE ExpireLoop(_, _, _, _, _)
ExpireLoop(fs, cur, oldest, rmFail, i) ==
  IF i > Len(fs) THEN [err |-> FALSE, removed |-> {}]
  ELSE IF fs[i].exists /\ fs[i].mod = oldest /\ i # cur
       THEN IF i \in rmFail
            THEN [err |-> TRUE, removed |-> {}]
            ELSE LET r == ExpireLoop(fs, cur, oldest, rmFail, i + 1)
                 IN [err |-> r.err, removed |-> r.removed \cup {i}]
       ELSE ExpireLoop(fs, cur, oldest, rmFail, i + 1)

\* cleanExpiredLogs: every .log entry whose modification time equals
\* oldest is removed, the active file excepted; the first failing removal
\* ends the sweep with an error; [err, removed] (storage.go:224-256)
cleanExpiredLogs(fs, cur, oldest, rmFail) == ExpireLoop(fs, cur, oldest, rmFail, 1)

\* free-space readings the volume can present for a given minimum
FreeValues(minFree, maxDef) == {v \in (minFree - maxDef)..minFree : v >= 0}

\* checkDiskSpace: [err, removed, flag] for one free-space reading
checkDiskSpace(fs, cur, free, rmFail, flag) ==
  IF maxTotalSizeMB = 0 /\ minDiskFreeMB = 0
  THEN [err |-> FALSE, removed |-> {}, flag |-> flag]
  ELSE
    LET dirSize  == getLogDirSize(fs)
        minFree  == minDiskFreeMB * MB
        maxTotal == maxTotalSizeMB * MB
        over     == maxTotal > 0 /\ dirSize > maxTotal
        required == Max(IF free < minFree THEN minFree - free ELSE 0,
                        IF over THEN dirSize - maxTotal ELSE 0)
    IN IF free < minFree \/ over
       THEN LET c == cleanOldLogs(fs, cur, required, rmFail) IN
            IF c.err /\ ~flag
            THEN [err |-> TRUE, removed |-> c.removed, flag |-> TRUE]
            ELSE [err |-> FALSE, removed |-> c.removed, flag |-> FALSE]
       ELSE [err |-> FALSE, removed |-> {}, flag |-> FALSE]

\* the deficit of one reading that eviction cannot close
Unclosable(fs, cur, free, rmFail) ==
  /\ ~(maxTotalSizeMB = 0 /\ minDiskFreeMB = 0)
  /\ LET dirSize  == getLogDirSize(fs)
         minFree  == minDiskFreeMB * MB
         maxTotal == maxTotalSizeMB * MB
         over     == maxTotal > 0 /\ dirSize > maxTotal
         required == Max(IF free < minFree THEN minFree - free ELSE 0,
                         IF over THEN dirSize - maxTotal ELSE 0)
     IN (free < minFree \/ over) /\ cleanOldLogs(fs, cur, required, rmFail).err

Removed(fs, S) == [f \in DOMAIN fs |-> IF f \in S THEN [fs[f] EXCEPT !.exists = FALSE] ELSE fs[f]]

(* ------------------------------ serializer ---------------------------- *)
\* a string is a sequence of bytes, a byte a one-character string
Quote == "\""
Backslash == "\\"

\* the bytes string arguments are made of, with their codes: a letter,
\* space, tab, line feed, double quote, backslash
Alphabet == {"a", " ", "\t", "\n", Quote, Backslash}
ByteCode ==
  [c \in Alphabet |->
     CASE c = "a" -> 97 [] c = " " -> 32 [] c = "\t" -> 9 [] c = "\n" -> 10
       [] c = Quote -> 34 [] c = Backslash -> 92]

\* strings of at most n bytes
Strings(n) == UNION {[1..k -> Alphabet] : k \in 0..n}

\* an argument of a log call: string, int, bool or nil
StrVal(s) == [t |-> "string", s |-> s, i |-> 0, b |-> FALSE]
IntVal(i) == [t |-> "int", s |-> << >>, i |-> i, b |-> FALSE]
BoolVal(b) == [t |-> "bool", s |-> << >>, i |-> 0, b |-> b]
NilVal == [t |-> "nil", s |-> << >>, i |-> 0, b |-> FALSE]

Scalars == {IntVal(i) : i \in {-12, 7}} \cup {BoolVal(b) : b \in BOOLEAN} \cup {NilVal}
Values(n) == {StrVal(s) : s \in Strings(n)} \cup Scalars

\* argument lists: none, one argument with a string of up to MaxStr bytes,
\* or MaxArgs arguments with strings of up to one byte
ArgLists ==
  {<< >>} \cup {<< v >> : v \in Values(MaxStr)} \cup [1..MaxArgs -> Values(1)]

\* the arguments of one serialize call; time stamps are counted in ticks
SerInputs ==
  [ format : {"json", "txt"}, flags : 0..(FlagShowTimestamp + FlagShowLevel),
    timestamp : {5}, level : {LevelWarn, 1}, trace : {<< >>, << "f" >>},
    args : ArgLists ]

NoInput ==
  [ format |-> "", flags |-> 0, timestamp |-> 0, level |-> 0, trace |-> << >>,
    args |-> << >> ]

\* newSerializer: an empty buffer (format.go:20-24); call holds the
\* arguments of serialize, parts what each argument appended
NewSerializer(input) == [call |-> input, done |-> FALSE, buf |-> << >>, parts |-> << >>]

\* flags&f != 0 for a one-bit f
HasFlag(flags, f) == (flags \div f) % 2 = 1

\* strconv.AppendInt(buf, n, 10)
DigitChars == << "0", "1", "2", "3", "4", "5", "6", "7", "8", "9" >>
RECURSIVE NatStr(_)
NatStr(n) == IF n < 10 THEN << DigitChars[n + 1] >>
             ELSE NatStr(n \div 10) \o << DigitChars[(n % 10) + 1] >>
AppendInt(n) == IF n < 0 THEN << "-" >> \o NatStr(-n) ELSE NatStr(n)

\* strconv.AppendBool
AppendBool(b) == IF b THEN << "t", "r", "u", "e" >> ELSE << "f", "a", "l", "s", "e" >>

\* timestamp.Format(time.RFC3339Nano): digits and separators, never a
\* quote, a backslash or a control character
FormatTime(t) == << "T" >> \o NatStr(t) \o << "Z" >>

\* levelToString (format.go:198-211)
levelToString(level) ==
  CASE level = LevelDebug -> << "D", "E", "B", "U", "G" >>
    [] level = LevelInfo -> << "I", "N", "F", "O" >>
    [] level = LevelWarn -> << "W", "A", "R", "N" >>
    [] level = LevelError -> << "E", "R", "R", "O", "R" >>
    [] OTHER -> << "U", "N", "K", "N", "O", "W", "N", " ", "(" >> \o AppendInt(level)
                  \o << ")" >>

\* writeString: a backslash is put before every byte below 0x20, double
\* quote and backslash, and the byte itself follows (format.go:228-235)
RECURSIVE writeString(_)
writeString(str) ==
  IF str = << >> THEN << >>
  ELSE (IF ByteCode[Head(str)] < 32 \/ Head(str) = Quote \/ Head(str) = Backslash
        THEN << Backslash, Head(str) >> ELSE << Head(str) >>)
       \o writeString(Tail(str))

\* a needsQuotes that accepts the empty string
needsQuotesNonEmpty(s) ==
  \E k \in 1..Len(s) : ByteCode[s[k]] <= 32 \/ s[k] = Quote \/ s[k] = Backslash

\* needsQuotes (format.go:185-195)
needsQuotes(s) ==
  \/ Len(s) = 0
  \/ \E k \in 1..Len(s) : ByteCode[s[k]] <= 32 \/ s[k] = Quote \/ s[k] = Backslash

\* writeTextValue (format.go:128-158)
writeTextValue(v) ==
  CASE v.t = "string" ->
         IF needsQuotes(v.s) THEN << Quote >> \o writeString(v.s) \o << Quote >>
         ELSE writeString(v.s)
    [] v.t = "int" -> AppendInt(v.i)
    [] v.t = "bool" -> AppendBool(v.b)
    [] v.t = "nil" -> << "n", "u", "l", "l" >>

\* writeJSONValue (format.go:161-182)
writeJSONValue(v) ==
  CASE v.t = "string" -> << Quote >> \o writeString(v.s) \o << Quote >>
    [] v.t = "int" -> AppendInt(v.i)
    [] v.t = "bool" -> AppendBool(v.b)
    [] v.t = "nil" -> << "n", "u", "l", "l" >>

\* the loop over the arguments: sep between two of them
RECURSIVE JoinParts(_, _)
JoinParts(parts, sep) ==
  IF parts = << >> THEN << >>
  ELSE IF Len(parts) = 1 THEN parts[1]
  ELSE parts[1] \o sep \o JoinParts(Tail(parts), sep)

\* serializeJSON (format.go:42-93)
serializeJSON(flags, timestamp, level, trace, args) ==
  LET showTime == HasFlag(flags, FlagShowTimestamp)
      showLevel == HasFlag(flags, FlagShowLevel)
      time == IF showTime
              THEN << Quote, "t", "i", "m", "e", Quote, ":", Quote >>
                   \o FormatTime(timestamp) \o << Quote >>
                   \o (IF showLevel \/ trace # << >> \/ Len(args) > 0
                       THEN << "," >> ELSE << >>)
              ELSE << >>
      lvl == IF showLevel
             THEN << Quote, "l", "e", "v", "e", "l", Quote, ":", Quote >>
                  \o levelToString(level) \o << Quote >>
                  \o (IF trace # << >> \/ Len(args) > 0 THEN << "," >> ELSE << >>)
             ELSE << >>
      trc == IF trace # << >>
             THEN << Quote, "t", "r", "a", "c", "e", Quote, ":", Quote >>
                  \o trace \o << Quote >>
                  \o (IF Len(args) > 0 THEN << "," >> ELSE << >>)
             ELSE << >>
      fields == IF Len(args) > 0
                THEN << Quote, "f", "i", "e", "l", "d", "s", Quote, ":", "[" >>
                     \o JoinParts([k \in 1..Len(args) |-> writeJSONValue(args[k])],
                                  << "," >>)
                     \o << "]" >>
                ELSE << >>
  IN << "{" >> \o time \o lvl \o trc \o fields \o << "}", "\n" >>

\* serializeText (format.go:96-125)
serializeText(flags, timestamp, level, trace, args) ==
  (IF HasFlag(flags, FlagShowTimestamp) THEN FormatTime(timestamp) \o << " " >> ELSE << >>)
  \o (IF HasFlag(flags, FlagShowLevel) THEN levelToString(level) \o << " " >> ELSE << >>)
  \o (IF trace # << >> THEN trace \o << " " >> ELSE << >>)
  \o JoinParts([k \in 1..Len(args) |-> writeTextValue(args[k])], << " " >>)
  \o << "\n" >>

(* ----------------------------- file names ----------------------------- *)
\* the extension of a log file name
LogExt == << ".", "l", "o", "g" >>

\* the sub-second precisions tried after the tenth of a second
FirstPrecision == 2
LastPrecision == 9

\* pow10 (part_013:343-349)
RECURSIVE pow10(_)
pow10(n) == IF n = 0 THEN 1 ELSE 10 * pow10(n - 1)

\* fmt.Sprintf("%0<w>d", n) on the digits of n
RECURSIVE ZeroPad(_, _)
ZeroPad(ds, w) == IF Len(ds) >= w THEN ds ELSE ZeroPad(<< "0" >> \o ds, w)

\* timestamp.Format("060102_150405"): the date and the time of day, six
\* digits each
baseTimestamp(t) ==
  ZeroPad(NatStr(t.date), 6) \o << "_" >> \o ZeroPad(NatStr(t.tod), 6)

\* <base>_<stamp>.<tenths>.log (part_013:313-316)
tenthName(baseName, t) ==
  baseName \o << "_" >> \o baseTimestamp(t) \o << "." >>
    \o NatStr(t.nano \div pow10(8)) \o LogExt

\* <base>_<stamp>_<subseconds, precision digits>.log (part_013:325-330)
precisionName(baseName, t, precision) ==
  baseName \o << "_" >> \o baseTimestamp(t) \o << "_" >>
    \o ZeroPad(NatStr(t.nano \div pow10(9 - precision)), precision) \o LogExt

\* an os.Stat that never finds the path
StatNeverFinds(dir, statErr, path) == "notexist"

\* os.Stat of a path in the log directory: found, not found, or another
\* error (the directory cannot be searched)
Stat(dir, statErr, path) ==
  IF statErr THEN "error" ELSE IF path \in dir THEN "found" ELSE "notexist"

\* the result of generateLogFileName
NameErr == [err |-> TRUE, name |-> << >>]
NameOk(fn) == [err |-> FALSE, name |-> fn]

\* the loop over the precisions (part_013:324-337)
RECURSIVE tryPrecision(_, _, _, _, _)
tryPrecision(dir, statErr, baseName, t, precision) ==
  IF precision > LastPrecision THEN NameErr
  ELSE IF Stat(dir, statErr, precisionName(baseName, t, precision)) = "notexist"
       THEN NameOk(precisionName(baseName, t, precision))
       ELSE tryPrecision(dir, statErr, baseName, t, precision + 1)

\* generateLogFileName (part_013:308-339); os.IsNotExist(err) is true only
\* for a path that is not found
generateLogFileName(cancelled, dir, statErr, baseName, t) ==
  IF cancelled THEN NameErr
  ELSE IF Stat(dir, statErr, tenthName(baseName, t)) = "notexist"
       THEN NameOk(tenthName(baseName, t))
       ELSE tryPrecision(dir, statErr, baseName, t, FirstPrecision)

\* the nine names generateLogFileName may return for a time stamp
CandidateNames(baseName, t) ==
  << tenthName(baseName, t) >>
    \o [k \in 1..(LastPrecision - FirstPrecision + 1) |->
          precisionName(baseName, t, FirstPrecision + k - 1)]

\* time stamps: one second, with nanoseconds that make the candidates
\* differ in all, some or only the last digits
NameTimes ==
  [ date : {261101}, tod : {93005}, nano : {0, 5, 120000000, 987654321} ]

\* the arguments and the environment of one createNewLogFile call: when the
\* caller's context is cancelled, whether os.Stat fails, and the names in
\* the directory, any subset of the candidates next to a file of another
\* second
NameCalls ==
  UNION { [ cancel : {"never", "before", "between"}, statErr : BOOLEAN,
            baseName : {<< "a" >>}, t : {t},
            dir : { d \cup {tenthName(<< "a" >>, [t EXCEPT !.tod = 0])} :
                      d \in SUBSET { CandidateNames(<< "a" >>, t)[k] : k \in 1..LastPrecision } } ]
          : t \in NameTimes }

NoCall ==
  [ cancel |-> "never", statErr |-> FALSE, baseName |-> << >>,
    t |-> [date |-> 0, tod |-> 0, nano |-> 0], dir |-> {} ]

\* a createNewLogFile call about to start: the directory, the result of
\* generateLogFileName once it has returned, the file opened, the error
NewNaming(call) ==
  [ call |-> call, pc |-> "create", dir |-> call.dir, called |-> FALSE,
    gen |-> NameErr, file |-> << >>, err |-> FALSE ]


(* --------------------------- initial state ---------------------------- *)
\* the package before Init is called, in a directory holding dir
BootWith(dir, input, call) ==
  /\ isInitialized = FALSE /\ loggerDisabled = FALSE
  /\ logLevel = 0 /\ bufferSize = 0 /\ maxSizeMB = 0
  /\ maxTotalSizeMB = 0 /\ minDiskFreeMB = 0 /\ traceDepth = 0
  /\ retentionPeriod = 0 /\ retentionCheck = 0
  /\ chans = << >> /\ logChannel = Nil
  /\ ctxDone = {} /\ processCtx = Nil
  /\ files = dir /\ currentFile = Nil /\ currentSize = 0 /\ clock = Len(dir)
  /\ droppedLogs = 0 /\ loggedDrops = 0 /\ diskFullLogged = FALSE
  /\ ppc = [p \in Producers |-> "idle"]
  /\ pcalls = [p \in Producers |-> 0]
  /\ prec = [p \in Producers |-> NoRec]
  /\ pcur = [p \in Producers |-> 0]
  /\ plogged = [p \in Producers |-> 0]
  /\ pctxDone = [p \in Producers |-> FALSE]
  /\ cpc = [c \in Consumers |-> "none"]
  /\ cchan = [c \in Consumers |-> Nil]
  /\ cctx = [c \in Consumers |-> Nil]
  /\ crec = [c \in Consumers |-> NoRec]
  /\ cnew = [c \in Consumers |-> Nil]
  /\ earliestFileTime = 0
  /\ cret = [c \in Consumers |-> FALSE]
  /\ serial = NewSerializer(input)
  /\ naming = NewNaming(call)
  /\ ctl = "idle" /\ ctlCfg = defaultConfig /\ ctlNew = Nil /\ ctlRes = "none"
  /\ nInits = 0 /\ nShutdowns = 0
  /\ wlog = << >>
  /\ hist = [sends |-> 0, diskDrops |-> 0, fullDrops |-> 0, recovered |-> 0,
             accepted |-> {}, skipped |-> {},
             check |-> [deficit |-> FALSE, err |-> FALSE, free |-> 0, failed |-> {}],
             snap |-> {}, sdNil |-> 0, lastSd |-> "none", cfg |-> ZeroConfig,
             gated |-> {}, pre |-> RunningState, swept |-> {}]

\* no serialize call to examine
Boot(dir) == BootWith(dir, NoInput, NoCall)

\* the program starts in an empty log directory
Init == Boot(<< >>)

(* ------------------------------ producers ----------------------------- *)
\* context of a record: the producer's for a caller's record,
\* context.Background() for the synthetic drop summary
RecCtxDone(r) == ~r.syn /\ r.p \in Producers /\ pctxDone[r.p]

\* a caller's context is cancelled (any time, once)
CancelCtx(p) ==
  /\ ~pctxDone[p]
  /\ pctxDone' = [pctxDone EXCEPT ![p] = TRUE]
  /\ UNCHANGED << serial, naming, retVars, isInitialized, loggerDisabled, cfgVars, chans, logChannel, ctxDone,
                  processCtx, fileVars, dropVars, diskFullLogged, prodVars, consVars,
                  ctlVars, wlog, hist >>

\* a gate that only tests the initialisation flag
GatedInitOnly(level) == ~isInitialized

\* log() returns at once: not initialised, or level below the minimum
\* (part_008:71-76)
Gated(level) == ~isInitialized \/ level < logLevel

\* log(): the initialisation and level gate (part_008:71-76)
LogGate(p, lens) ==
  /\ ppc[p] = "idle" /\ pcalls[p] < MaxCalls
  /\ \E level \in Levels, len \in lens :
       /\ pcalls' = [pcalls EXCEPT ![p] = @ + 1]
       /\ IF Gated(level)
          THEN /\ hist' = [hist EXCEPT !.gated = @ \cup {IF isInitialized THEN "below"
                                                                          ELSE "uninit"}]
               /\ UNCHANGED << ppc, prec >>
          ELSE /\ ppc' = [ppc EXCEPT ![p] = "check"]
               /\ prec' = [prec EXCEPT ![p] = [p |-> p, n |-> pcalls[p] + 1, syn |-> FALSE,
                                               lv |-> level, len |-> len, dc |-> 0,
                                               td |-> 0]]
               /\ UNCHANGED hist
  /\ UNCHANGED << serial, naming, retVars, isInitialized, loggerDisabled, cfgVars, chans, logChannel, ctxDone,
                  processCtx, fileVars, dropVars, diskFullLogged, pcur, plogged, pctxDone,
                  consVars, ctlVars, wlog >>

\* log(): checkDiskSpace and the drop on its error (part_008:79-82)
LogCheckDisk(p, maxDef, faults) ==
  /\ ppc[p] = "check"
  /\ \E free \in FreeValues(minDiskFreeMB * MB, maxDef),
        rmFail \in (IF faults THEN SUBSET (Existing \ {currentFile}) ELSE {{}}) :
       LET r == checkDiskSpace(files, currentFile, free, rmFail, diskFullLogged) IN
       /\ files' = Removed(files, r.removed)
       /\ diskFullLogged' = r.flag
       /\ hist' = [hist EXCEPT
                      !.diskDrops = IF r.err THEN @ + 1 ELSE @,
                      !.check = [deficit |-> Unclosable(files, currentFile, free, rmFail),
                                 err |-> r.err, free |-> free, failed |-> rmFail]]
       /\ IF r.err
          THEN /\ droppedLogs' = droppedLogs + 1
               /\ ppc' = [ppc EXCEPT ![p] = "idle"]
               /\ prec' = [prec EXCEPT ![p] = NoRec]
          ELSE /\ ppc' = [ppc EXCEPT ![p] = "loadDrops"]
               /\ UNCHANGED << droppedLogs, prec >>
  /\ UNCHANGED << serial, naming, retVars, isInitialized, loggerDisabled, cfgVars, chans, logChannel, ctxDone,
                  processCtx, currentFile, currentSize, clock, loggedDrops, pcalls, pcur,
                  plogged, pctxDone, consVars, ctlVars, wlog >>

\* log(): currentDrops := droppedLogs.Load() (part_008:85)
LogLoadDrops(p) ==
  /\ ppc[p] = "loadDrops"
  /\ pcur' = [pcur EXCEPT ![p] = droppedLogs]
  /\ ppc' = [ppc EXCEPT ![p] = "loadLogged"]
  /\ UNCHANGED << serial, naming, retVars, isInitialized, loggerDisabled, cfgVars, chans, logChannel, ctxDone,
                  processCtx, fileVars, dropVars, diskFullLogged, pcalls, prec, plogged,
                  pctxDone, consVars, ctlVars, wlog, hist >>

\* log(): logged := loggedDrops.Load() and the comparison (part_008:86-87)
LogLoadLogged(p) ==
  /\ ppc[p] = "loadLogged"
  /\ IF pcur[p] > loggedDrops
     THEN /\ plogged' = [plogged EXCEPT ![p] = loggedDrops]
          /\ ppc' = [ppc EXCEPT ![p] = "storeLogged"]
          /\ pcur' = pcur
     ELSE /\ ppc' = [ppc EXCEPT ![p] = "sendChk"]
          /\ pcur' = [pcur EXCEPT ![p] = 0]
          /\ plogged' = plogged
  /\ UNCHANGED << serial, naming, retVars, isInitialized, loggerDisabled, cfgVars, chans, logChannel, ctxDone,
                  processCtx, fileVars, dropVars, diskFullLogged, pcalls, prec,
                  pctxDone, consVars, ctlVars, wlog, hist >>

\* a store of the observed total plus the gap it is about to announce
StoredDropsPlusGap(p) == pcur[p] + (pcur[p] - plogged[p])

\* the value log() stores in loggedDrops: the total it observed (part_008:90)
StoredDrops(p) == pcur[p]

\* log(): loggedDrops.Store(currentDrops) (part_008:90)
LogStoreLogged(p) ==
  /\ ppc[p] = "storeLogged"
  /\ loggedDrops' = StoredDrops(p)
  /\ ppc' = [ppc EXCEPT ![p] = "dropChk"]
  /\ UNCHANGED << serial, naming, retVars, isInitialized, loggerDisabled, cfgVars, chans, logChannel, ctxDone,
                  processCtx, fileVars, droppedLogs, diskFullLogged, pcalls, prec, pcur,
                  plogged, pctxDone, consVars, ctlVars, wlog, hist >>

\* a drop summary that reports the running total as the new drops
dropRecordTotalOnly(p) ==
  [p |-> p, n |-> pcalls[p], syn |-> TRUE, lv |-> LevelError, len |-> DropLen,
   dc |-> pcur[p], td |-> pcur[p]]

\* the synthetic drop-summary record of log() (part_008:91-101)
dropRecord(p) ==
  [p |-> p, n |-> pcalls[p], syn |-> TRUE, lv |-> LevelError, len |-> DropLen,
   dc |-> pcur[p] - plogged[p], td |-> pcur[p]]

\* the record a producer is sending at its position
SendingRec(p) == IF ppc[p] \in {"dropChk", "dropSel"} THEN dropRecord(p) ELSE prec[p]

\* position after sendLogRecord returns
AfterSend(p) == IF ppc[p] \in {"dropChk", "dropSel"} THEN "sendChk" ELSE "idle"

\* sendLogRecord has returned to log(); how is "sent", "full", "panic"
\* or "disabled"
Returned(p, how) ==
  /\ ppc' = [ppc EXCEPT ![p] = AfterSend(p)]
  /\ pcur' = [pcur EXCEPT ![p] = 0]
  /\ plogged' = [plogged EXCEPT ![p] = 0]
  /\ prec' = [prec EXCEPT ![p] = IF AfterSend(p) = "idle" THEN NoRec ELSE @]
  /\ hist' = [hist EXCEPT
                 !.sends = @ + 1,
                 !.fullDrops = IF how = "full" THEN @ + 1 ELSE @,
                 !.recovered = IF how = "panic" THEN @ + 1 ELSE @,
                 !.accepted = IF how = "sent" THEN @ \cup {SendingRec(p)} ELSE @]

\* sendLogRecord: the loggerDisabled check (part_008:138-141)
SendCheck(p) ==
  /\ ppc[p] \in {"dropChk", "sendChk"}
  /\ IF loggerDisabled
     THEN /\ droppedLogs' = droppedLogs + 1
          /\ Returned(p, "disabled")
     ELSE /\ ppc' = [ppc EXCEPT ![p] = IF ppc[p] = "dropChk" THEN "dropSel" ELSE "sendSel"]
          /\ UNCHANGED << droppedLogs, pcur, plogged, prec, hist >>
  /\ UNCHANGED << serial, naming, retVars, isInitialized, loggerDisabled, cfgVars, chans, logChannel, ctxDone,
                  processCtx, fileVars, loggedDrops, diskFullLogged, pcalls,
                  pctxDone, consVars, ctlVars, wlog >>

\* a select that takes the send case while the buffer is already full
SelectSendOverfull(ch) ==
  IF ch = Nil THEN "full"
  ELSE IF chans[ch].closed THEN "panic"
  ELSE IF Len(chans[ch].buf) <= chans[ch].cap THEN "sent"
  ELSE "full"

\* outcome of the select of sendLogRecord on channel ch:
\* "sent", "full" (default case), "panic" (send on a closed channel)
SelectSend(ch) ==
  IF ch = Nil THEN "full"
  ELSE IF chans[ch].closed THEN "panic"
  ELSE IF Len(chans[ch].buf) < chans[ch].cap THEN "sent"
  ELSE "full"

\* sendLogRecord without its deferred recover: the panic unwinds into
\* the caller
RecoverMissing(p) ==
  /\ ppc' = [ppc EXCEPT ![p] = "panic"]
  /\ UNCHANGED << droppedLogs, pcur, plogged, prec, hist >>

\* the deferred recover of sendLogRecord: a panic is turned into a drop
\* and the call returns normally (part_008:132-136)
Recover(p) ==
  /\ droppedLogs' = droppedLogs + 1
  /\ Returned(p, "panic")

\* sendLogRecord: the non-blocking send (part_008:143-147)
SendSelect(p) ==
  /\ ppc[p] \in {"dropSel", "sendSel"}
  /\ LET o == SelectSend(logChannel) IN
       \/ /\ o = "sent"
          /\ chans' = [chans EXCEPT ![logChannel].buf = Append(@, SendingRec(p))]
          /\ Returned(p, "sent")
          /\ UNCHANGED droppedLogs
       \/ /\ o = "full"
          /\ droppedLogs' = droppedLogs + 1
          /\ Returned(p, "full")
          /\ UNCHANGED chans
       \/ /\ o = "panic"
          /\ Recover(p)
          /\ UNCHANGED chans
  /\ UNCHANGED << serial, naming, retVars, isInitialized, loggerDisabled, cfgVars, logChannel, ctxDone,
                  processCtx, fileVars, loggedDrops, diskFullLogged, pcalls,
                  pctxDone, consVars, ctlVars, wlog >>

(* ------------------------ processLogs goroutines ---------------------- *)
\* createNewLogFile: a fresh file, open for appending, size 0
NewFile ==
  [exists |-> TRUE, open |-> TRUE, size |-> 0, mod |-> clock + 1, by |-> 0, inst |-> 0,
   own |-> TRUE]

\* a processLogs whose error paths return instead of continuing
SkipReturns(c, at) ==
  /\ cpc' = [cpc EXCEPT ![c] = "done"]
  /\ crec' = [crec EXCEPT ![c] = NoRec]
  /\ cnew' = [cnew EXCEPT ![c] = Nil]
  /\ hist' = [hist EXCEPT !.skipped = @ \cup {[rec |-> crec[c], at |-> at]}]

\* back to the top of the for loop, record (if any) dropped from hand
Continue(c) ==
  /\ cpc' = [cpc EXCEPT ![c] = "select"]
  /\ crec' = [crec EXCEPT ![c] = NoRec]
  /\ cnew' = [cnew EXCEPT ![c] = Nil]

\* `continue` after an error: the record in hand is never written
Skip(c, at) ==
  /\ Continue(c)
  /\ hist' = [hist EXCEPT !.skipped = @ \cup {[rec |-> crec[c], at |-> at]}]

\* processLogs before its loop: with retention enabled the retention
\* ticker is created and the watermark computed (part_008:153-163)
ConsRetStart(c) ==
  /\ cpc[c] = "start"
  /\ IF retentionPeriod > 0 /\ retentionCheck > 0
     THEN /\ cret' = [cret EXCEPT ![c] = TRUE]
          /\ earliestFileTime' = updateEarliestFileTime(files, currentFile)
     ELSE UNCHANGED retVars
  /\ cpc' = [cpc EXCEPT ![c] = "select"]
  /\ UNCHANGED << serial, naming, isInitialized, loggerDisabled, cfgVars, chans, logChannel, ctxDone,
                  processCtx, fileVars, dropVars, diskFullLogged, prodVars, pctxDone,
                  cchan, cctx, crec, cnew, ctlVars, wlog, hist >>

\* case <-retentionChan: the sweep is due when retention is enabled, the
\* watermark is set and older than the retention period (part_008:206-212);
\* expired is the outcome of time.Since(earliest) > retentionPeriod
ConsRetTick(c) ==
  /\ cpc[c] = "wait" /\ cret[c]
  /\ \E expired \in BOOLEAN :
       cpc' = [cpc EXCEPT ![c] =
                 IF retentionPeriod > 0 /\ earliestFileTime # 0 /\ expired
                 THEN "sweep" ELSE "select"]
  /\ UNCHANGED << serial, naming, isInitialized, loggerDisabled, cfgVars, chans, logChannel, ctxDone,
                  processCtx, fileVars, dropVars, diskFullLogged, prodVars, pctxDone,
                  cchan, cctx, crec, cnew, retVars, ctlVars, wlog, hist >>

\* cleanExpiredLogs(ctx, earliest), then updateEarliestFileTime() if it
\* returned nil (part_008:213-217)
ConsSweep(c, faults) ==
  /\ cpc[c] = "sweep"
  /\ \E rmFail \in (IF faults THEN SUBSET Existing ELSE {{}}) :
       LET r == cleanExpiredLogs(files, currentFile, earliestFileTime, rmFail)
           after == Removed(files, r.removed)
       IN /\ files' = after
          /\ earliestFileTime' = IF r.err THEN earliestFileTime
                                 ELSE updateEarliestFileTime(after, currentFile)
          /\ hist' = [hist EXCEPT !.swept = @ \cup r.removed]
  /\ cpc' = [cpc EXCEPT ![c] = "select"]
  /\ UNCHANGED << serial, naming, isInitialized, loggerDisabled, cfgVars, chans, logChannel, ctxDone,
                  processCtx, currentFile, currentSize, clock, dropVars, diskFullLogged,
                  prodVars, pctxDone, cchan, cctx, crec, cnew, cret, ctlVars, wlog >>

\* entering select: the channel operands are evaluated from the
\* package-level logChannel and processCtx (part_008:166-168, 221)
ConsSelect(c) ==
  /\ cpc[c] = "select"
  /\ cchan' = [cchan EXCEPT ![c] = logChannel]
  /\ cctx' = [cctx EXCEPT ![c] = processCtx]
  /\ cpc' = [cpc EXCEPT ![c] = "wait"]
  /\ UNCHANGED << serial, naming, retVars, isInitialized, loggerDisabled, cfgVars, chans, logChannel, ctxDone,
                  processCtx, fileVars, dropVars, diskFullLogged, prodVars, pctxDone,
                  crec, cnew, ctlVars, wlog, hist >>

\* case record, ok := <-logChannel with a record (part_008:168, 176-178)
ConsRecv(c) ==
  /\ cpc[c] = "wait" /\ cchan[c] # Nil
  /\ chans[cchan[c]].buf # << >>
  /\ crec' = [crec EXCEPT ![c] = Head(chans[cchan[c]].buf)]
  /\ chans' = [chans EXCEPT ![cchan[c]].buf = Tail(@), ![cchan[c]].deq = @ + 1]
  /\ cpc' = [cpc EXCEPT ![c] = "size"]
  /\ UNCHANGED << serial, naming, retVars, isInitialized, loggerDisabled, cfgVars, logChannel, ctxDone,
                  processCtx, fileVars, dropVars, diskFullLogged, prodVars, pctxDone,
                  cchan, cctx, cnew, ctlVars, wlog, hist >>

\* case <-logChannel on a closed, drained channel: sync and return
\* (part_008:169-174)
ConsClosed(c) ==
  /\ cpc[c] = "wait" /\ cchan[c] # Nil
  /\ chans[cchan[c]].buf = << >> /\ chans[cchan[c]].closed
  /\ cpc' = [cpc EXCEPT ![c] = "done"]
  /\ UNCHANGED << serial, naming, retVars, isInitialized, loggerDisabled, cfgVars, chans, logChannel, ctxDone,
                  processCtx, fileVars, dropVars, diskFullLogged, prodVars, pctxDone,
                  cchan, cctx, crec, cnew, ctlVars, wlog, hist >>

\* case <-ticker.C: sync and loop (part_008:202-205)
ConsTick(c) ==
  /\ cpc[c] = "wait"
  /\ cpc' = [cpc EXCEPT ![c] = "select"]
  /\ UNCHANGED << serial, naming, retVars, isInitialized, loggerDisabled, cfgVars, chans, logChannel, ctxDone,
                  processCtx, fileVars, dropVars, diskFullLogged, prodVars, pctxDone,
                  cchan, cctx, crec, cnew, ctlVars, wlog, hist >>

\* case <-processCtx.Done(): sync and return (part_008:221-225)
ConsCtxDone(c) ==
  /\ cpc[c] = "wait" /\ cctx[c] \in ctxDone
  /\ cpc' = [cpc EXCEPT ![c] = "done"]
  /\ UNCHANGED << serial, naming, retVars, isInitialized, loggerDisabled, cfgVars, chans, logChannel, ctxDone,
                  processCtx, fileVars, dropVars, diskFullLogged, prodVars, pctxDone,
                  cchan, cctx, crec, cnew, ctlVars, wlog, hist >>

\* the rotation test of processLogs (part_008:184)
NeedsRotation(size, len) == maxSizeMB > 0 /\ size + len > maxSizeMB * MB

\* estimate the size and decide on a rotation (part_008:181-184)
ConsSize(c) ==
  /\ cpc[c] = "size"
  /\ cpc' = [cpc EXCEPT ![c] = IF NeedsRotation(currentSize, crec[c].len)
                                THEN "rotOpen" ELSE "write"]
  /\ UNCHANGED << serial, naming, retVars, isInitialized, loggerDisabled, cfgVars, chans, logChannel, ctxDone,
                  processCtx, fileVars, dropVars, diskFullLogged, prodVars, pctxDone,
                  cchan, cctx, crec, cnew, ctlVars, wlog, hist >>

\* whether rotateLogFile / createNewLogFile / generateLogFileName give up
\* on the context they are handed (part_013:379-381, 355-357, 310-312)
RotateCtxErr(r) == RecCtxDone(r)

\* rotateLogFile up to createNewLogFile (part_013:377-386); an error
\* makes processLogs skip the record (part_008:185-187)
ConsRotOpen(c, faults) ==
  /\ cpc[c] = "rotOpen"
  /\ \/ /\ RotateCtxErr(crec[c])
        /\ Skip(c, "rotate")
        /\ UNCHANGED << files, clock >>
     \/ /\ faults
        /\ Skip(c, "fault")
        /\ UNCHANGED << files, clock >>
     \/ /\ ~RotateCtxErr(crec[c])
        /\ files' = Append(files, [NewFile EXCEPT !.by = c])
        /\ clock' = clock + 1
        /\ cnew' = [cnew EXCEPT ![c] = Len(files) + 1]
        /\ cpc' = [cpc EXCEPT ![c] = "rotSwap"]
        /\ UNCHANGED << crec, hist >>
  /\ UNCHANGED << serial, naming, retVars, isInitialized, loggerDisabled, cfgVars, chans, logChannel, ctxDone,
                  processCtx, currentFile, currentSize, dropVars, diskFullLogged,
                  prodVars, pctxDone, cchan, cctx, ctlVars, wlog >>

\* os.File.Close: fails on a handle already closed, or on an I/O fault
CloseFails(f, fault) == ~files[f].open \/ fault

\* a rotateLogFile that adopts the new file although the close failed
closeErrorAdopts(c) == [newOpen |-> TRUE, file |-> cnew[c], size |-> 0]

\* rotateLogFile when oldFile.Close() fails: newFile.Close() and return,
\* before the stores to currentFile and currentSize (part_013:389-392)
closeError(c) == [newOpen |-> FALSE, file |-> currentFile, size |-> currentSize]

\* rotateLogFile: close the old file, publish the new one, reset the
\* tracked size (part_013:388-399)
ConsRotSwap(c, faults) ==
  /\ cpc[c] = "rotSwap"
  /\ \E fault \in (IF faults THEN BOOLEAN ELSE {FALSE}) :
       IF currentFile # Nil /\ CloseFails(currentFile, fault)
       THEN /\ files' = [files EXCEPT ![cnew[c]].open = closeError(c).newOpen]
            /\ currentFile' = closeError(c).file
            /\ currentSize' = closeError(c).size
            /\ Skip(c, "close")
       ELSE /\ files' = IF currentFile # Nil
                        THEN [files EXCEPT ![currentFile].open = FALSE]
                        ELSE files
            /\ currentFile' = cnew[c]
            /\ currentSize' = 0
            /\ cpc' = [cpc EXCEPT ![c] = "write"]
            /\ UNCHANGED << crec, cnew, hist >>
  /\ UNCHANGED << serial, naming, retVars, isInitialized, loggerDisabled, cfgVars, chans, logChannel, ctxDone,
                  processCtx, clock, dropVars, diskFullLogged, prodVars, pctxDone,
                  cchan, cctx, ctlVars, wlog >>

\* currentFile.Load().Write(data) (part_008:190-192); the sync while
\* shutting down (part_008:195-197) changes no modelled state
ConsWrite(c, faults) ==
  /\ cpc[c] = "write"
  /\ \E fault \in (IF faults THEN BOOLEAN ELSE {FALSE}) :
       IF ~files[currentFile].open \/ fault
       THEN /\ Skip(c, IF fault THEN "fault" ELSE "write")
            /\ UNCHANGED << files, clock, wlog >>
       ELSE /\ files' = [files EXCEPT ![currentFile].size = @ + crec[c].len,
                                      ![currentFile].mod = clock + 1]
            /\ clock' = clock + 1
            /\ wlog' = Append(wlog, [rec |-> crec[c], file |-> currentFile, by |-> c,
                                     from |-> cchan[c], rotated |-> cnew[c] # Nil,
                                     size |-> files[currentFile].size + crec[c].len])
            /\ cpc' = [cpc EXCEPT ![c] = "stat"]
            /\ UNCHANGED << crec, cnew, hist >>
  /\ UNCHANGED << serial, naming, retVars, isInitialized, loggerDisabled, cfgVars, chans, logChannel, ctxDone,
                  processCtx, currentFile, currentSize, dropVars, diskFullLogged,
                  prodVars, pctxDone, cchan, cctx, ctlVars >>

\* os.Stat of the active file's name; the tracked size is refreshed only
\* when it succeeds (part_008:199-201)
ConsStat(c, faults) ==
  /\ cpc[c] = "stat"
  /\ \E fault \in (IF faults THEN BOOLEAN ELSE {FALSE}) :
       currentSize' = IF files[currentFile].exists /\ ~fault
                      THEN files[currentFile].size ELSE currentSize
  /\ Continue(c)
  /\ UNCHANGED << serial, naming, retVars, isInitialized, loggerDisabled, cfgVars, chans, logChannel, ctxDone,
                  processCtx, files, currentFile, clock, dropVars, diskFullLogged,
                  prodVars, pctxDone, cchan, cctx, ctlVars, wlog, hist >>

(* ------------------------ Init / reconfiguration ---------------------- *)
\* applyConfig: the package-level values after the call and whether it
\* returned an error (part_010:164-205)
applyConfig(cfg) ==
  LET newBufferSize == IF cfg.BufferSize < 1 THEN FallbackBufferSize ELSE cfg.BufferSize
      err == \/ cfg.MaxTotalSizeMB < 0 \/ cfg.MinDiskFreeMB < 0
             \/ cfg.TraceDepth < 0 \/ cfg.TraceDepth > MaxTraceDepth
  IN [ err |-> err,
       maxSizeMB |-> cfg.MaxSizeMB,
       retentionPeriod |-> cfg.RetentionPeriod,
       retentionCheck |-> cfg.RetentionCheckInterval,
       maxTotalSizeMB |-> cfg.MaxTotalSizeMB,
       minDiskFreeMB |-> cfg.MinDiskFreeMB,
       traceDepth |-> IF err THEN traceDepth ELSE cfg.TraceDepth,
       logLevel |-> IF err THEN logLevel ELSE cfg.Level,
       bufferSize |-> IF err THEN bufferSize ELSE newBufferSize ]

\* configLogger, then initLogger up to MkdirAll (part_010:45-95, 119-133)
InitCall(limit, faults, cfgs) ==
  /\ ctl = "idle" /\ nInits < limit
  /\ nInits' = nInits + 1
  /\ \E user \in cfgs, ctxCancelled \in BOOLEAN,
        mkdirFails \in (IF faults THEN BOOLEAN ELSE {FALSE}) :
       LET merged == mergeConfigs(IF isInitialized THEN currentCfg ELSE defaultConfig, user)
           a == applyConfig(merged)
       IN /\ hist' = [hist EXCEPT !.cfg = user, !.pre = RunningState]
          /\ IF ctxCancelled
             THEN /\ ~mkdirFails
                  /\ ctlRes' = "init:err"
                  /\ UNCHANGED << cfgVars, ctl, ctlCfg >>
             ELSE /\ maxSizeMB' = a.maxSizeMB
                  /\ maxTotalSizeMB' = a.maxTotalSizeMB
                  /\ minDiskFreeMB' = a.minDiskFreeMB
                  /\ retentionPeriod' = a.retentionPeriod
                  /\ retentionCheck' = a.retentionCheck
                  /\ traceDepth' = a.traceDepth
                  /\ logLevel' = a.logLevel
                  /\ bufferSize' = a.bufferSize
                  /\ IF a.err \/ mkdirFails
                     THEN /\ ctlRes' = "init:err"
                          /\ UNCHANGED << ctl, ctlCfg >>
                     ELSE /\ ctl' = "reconf"
                          /\ ctlCfg' = merged
                          /\ ctlRes' = "none"
  /\ UNCHANGED << serial, naming, retVars, isInitialized, loggerDisabled, chans, logChannel, ctxDone,
                  processCtx, fileVars, dropVars, diskFullLogged, prodVars, pctxDone,
                  consVars, ctlNew, nShutdowns, wlog >>

\* whether initLogger closes the old channel (part_010:141)
ClosesChannel(cfg) == bufferSize # cfg.BufferSize

\* initLogger on a running logger: cancel the consumer's context and
\* perhaps close the channel (part_010:136-144)
InitReconf ==
  /\ ctl = "reconf"
  /\ IF isInitialized
     THEN /\ ctxDone' = IF processCtx # Nil THEN ctxDone \cup {processCtx} ELSE ctxDone
          /\ IF ClosesChannel(ctlCfg)
             THEN IF chans[logChannel].closed
                  THEN /\ ctl' = "panic"
                       /\ UNCHANGED chans
                  ELSE /\ chans' = [chans EXCEPT ![logChannel].closed = TRUE]
                       /\ ctl' = "create"
             ELSE /\ ctl' = "create"
                  /\ UNCHANGED chans
     ELSE /\ ctl' = "create"
          /\ UNCHANGED << ctxDone, chans >>
  /\ UNCHANGED << serial, naming, retVars, isInitialized, loggerDisabled, cfgVars, logChannel,
                  processCtx, fileVars, dropVars, diskFullLogged, prodVars, pctxDone,
                  consVars, ctlCfg, ctlNew, ctlRes, nInits, nShutdowns, wlog, hist >>

\* initLogger: createNewLogFile (part_010:147-150)
InitCreate(faults) ==
  /\ ctl = "create"
  /\ \/ /\ faults
        /\ ctl' = "idle" /\ ctlRes' = "init:err"
        /\ UNCHANGED << files, clock, ctlNew >>
     \/ /\ files' = Append(files, [NewFile EXCEPT !.inst = Len(chans) + 1])
        /\ clock' = clock + 1
        /\ ctlNew' = Len(files) + 1
        /\ ctl' = "store"
        /\ UNCHANGED ctlRes
  /\ UNCHANGED << serial, naming, retVars, isInitialized, loggerDisabled, cfgVars, chans, logChannel, ctxDone,
                  processCtx, currentFile, currentSize, dropVars, diskFullLogged,
                  prodVars, pctxDone, consVars, ctlCfg, nInits, nShutdowns, wlog, hist >>

\* initLogger: currentFile.Store(logFile) (part_010:152)
InitStore ==
  /\ ctl = "store"
  /\ currentFile' = ctlNew
  /\ ctl' = "start"
  /\ UNCHANGED << serial, naming, retVars, isInitialized, loggerDisabled, cfgVars, chans, logChannel, ctxDone,
                  processCtx, files, currentSize, clock, dropVars, diskFullLogged,
                  prodVars, pctxDone, consVars, ctlCfg, ctlNew, ctlRes, nInits,
                  nShutdowns, wlog, hist >>

\* make(chan logRecord, bufferSize)
NewChan == [buf |-> << >>, closed |-> FALSE, cap |-> bufferSize, deq |-> 0]

\* initLogger: new channel, new context, go processLogs(), initialised
\* (part_010:153-159)
InitStart ==
  /\ ctl = "start"
  /\ LET g == Len(chans) + 1 IN
       /\ chans' = Append(chans, NewChan)
       /\ logChannel' = g
       /\ processCtx' = g
       /\ cpc' = [cpc EXCEPT ![g] = "start"]
  /\ isInitialized' = TRUE
  /\ ctl' = "idle" /\ ctlRes' = "init:nil" /\ ctlNew' = Nil
  /\ UNCHANGED << serial, naming, retVars, loggerDisabled, cfgVars, ctxDone, fileVars, dropVars, diskFullLogged,
                  prodVars, pctxDone, cchan, cctx, crec, cnew, ctlCfg, nInits,
                  nShutdowns, wlog, hist >>

(* ------------------------------ Shutdown ------------------------------ *)
\* shutdownLogger without its initialised check
NotRunningUnchecked == FALSE

\* shutdownLogger returns nil at once on a logger that is not initialised
\* (part_010:228-230)
NotRunning == ~isInitialized

\* shutdownLogger: the initialised check (part_010:225-230)
ShutdownCall(limit) ==
  /\ ctl = "idle" /\ nShutdowns < limit
  /\ nShutdowns' = nShutdowns + 1
  /\ IF NotRunning
     THEN /\ ctlRes' = "sd:nil"
          /\ hist' = [hist EXCEPT !.sdNil = @ + 1, !.lastSd = "noop"]
          /\ UNCHANGED ctl
     ELSE /\ ctl' = "sdGrace"
          /\ ctlRes' = "none"
          /\ hist' = [hist EXCEPT !.snap =
                         IF logChannel = Nil THEN {}
                         ELSE {chans[logChannel].buf[i] :
                                 i \in 1..Len(chans[logChannel].buf)}]
  /\ UNCHANGED << serial, naming, retVars, isInitialized, loggerDisabled, cfgVars, chans, logChannel, ctxDone,
                  processCtx, fileVars, dropVars, diskFullLogged, prodVars, pctxDone,
                  consVars, ctlCfg, ctlNew, nInits, wlog >>

\* a shutdownLogger that stores its flags before it waits
GraceCancelledStopped == [disabled |-> TRUE, initialized |-> FALSE]

\* the flags when the caller's context ends the wait: the return at
\* part_010:234-235 comes before the stores at part_010:239-240
GraceCancelled == [disabled |-> loggerDisabled, initialized |-> isInitialized]

\* shutdownLogger: the grace period ends, by the timer or by the caller's
\* context; on the timer the logger is disabled (part_010:232-240)
ShutdownGrace ==
  /\ ctl = "sdGrace"
  /\ \/ /\ ctl' = "idle" /\ ctlRes' = "sd:err"
        /\ loggerDisabled' = GraceCancelled.disabled
        /\ isInitialized' = GraceCancelled.initialized
     \/ /\ loggerDisabled' = TRUE
        /\ isInitialized' = FALSE
        /\ ctl' = "sdStop"
        /\ UNCHANGED ctlRes
  /\ UNCHANGED << serial, naming, retVars, cfgVars, chans, logChannel, ctxDone,
                  processCtx, fileVars, dropVars, diskFullLogged, prodVars, pctxDone,
                  consVars, ctlCfg, ctlNew, nInits, nShutdowns, wlog, hist >>

\* shutdownLogger: processCancel() and close(logChannel) (part_010:242-245);
\* close panics on a nil channel and on a channel already closed
ShutdownStop ==
  /\ ctl = "sdStop"
  /\ ctxDone' = IF processCtx # Nil THEN ctxDone \cup {processCtx} ELSE ctxDone
  /\ IF logChannel = Nil \/ chans[logChannel].closed
     THEN /\ ctl' = "panic"
          /\ UNCHANGED chans
     ELSE /\ chans' = [chans EXCEPT ![logChannel].closed = TRUE]
          /\ ctl' = "sdFile"
  /\ UNCHANGED << serial, naming, retVars, isInitialized, loggerDisabled, cfgVars, logChannel,
                  processCtx, fileVars, dropVars, diskFullLogged, prodVars, pctxDone,
                  consVars, ctlCfg, ctlNew, ctlRes, nInits, nShutdowns, wlog, hist >>

\* shutdownLogger: sync and close the active file (part_010:248-270)
ShutdownFile(faults) ==
  /\ ctl = "sdFile"
  /\ ctl' = "idle"
  /\ \/ /\ faults
        /\ ctlRes' = "sd:err"
        /\ UNCHANGED << files, hist >>
     \/ /\ ctlRes' = "sd:err"
        /\ UNCHANGED << files, hist >>
     \/ IF currentFile # Nil /\ CloseFails(currentFile, FALSE)
        THEN /\ ctlRes' = "sd:err"
             /\ UNCHANGED << files, hist >>
        ELSE /\ files' = IF currentFile # Nil
                         THEN [files EXCEPT ![currentFile].open = FALSE] ELSE files
             /\ ctlRes' = "sd:nil"
             /\ hist' = [hist EXCEPT !.sdNil = @ + 1, !.lastSd = "closed"]
  /\ UNCHANGED << serial, naming, retVars, isInitialized, loggerDisabled, cfgVars, chans, logChannel, ctxDone,
                  processCtx, currentFile, currentSize, clock, dropVars, diskFullLogged,
                  prodVars, pctxDone, consVars, ctlCfg, ctlNew, nInits, nShutdowns, wlog >>

(* ----------------------------- serialize ------------------------------ *)
\* everything but the serializer
loggerVars ==
  << isInitialized, loggerDisabled, cfgVars, chans, logChannel, ctxDone, processCtx,
     fileVars, dropVars, diskFullLogged, prodVars, pctxDone, consVars, retVars,
     ctlVars, wlog, hist >>

\* serialize with format "json": reset, then serializeJSON (format.go:32-37)
SerializeJSON ==
  /\ ~serial.done /\ serial.call.format = "json"
  /\ LET c == serial.call IN
       serial' = [serial EXCEPT
                    !.done = TRUE,
                    !.buf = serializeJSON(c.flags, c.timestamp, c.level, c.trace, c.args),
                    !.parts = [k \in 1..Len(c.args) |-> writeJSONValue(c.args[k])]]
  /\ UNCHANGED << loggerVars, naming >>

\* serialize with any other format: reset, then serializeText
\* (format.go:32-34, 38)
SerializeText ==
  /\ ~serial.done /\ serial.call.format # "json"
  /\ LET c == serial.call IN
       serial' = [serial EXCEPT
                    !.done = TRUE,
                    !.buf = serializeText(c.flags, c.timestamp, c.level, c.trace, c.args),
                    !.parts = [k \in 1..Len(c.args) |-> writeTextValue(c.args[k])]]
  /\ UNCHANGED << loggerVars, naming >>

(* -------------------------- createNewLogFile -------------------------- *)
\* createNewLogFile: the check of the context (part_013:354-357)
NameCreate ==
  /\ naming.pc = "create"
  /\ naming' = IF naming.call.cancel = "before"
               THEN [naming EXCEPT !.pc = "done", !.err = TRUE]
               ELSE [naming EXCEPT !.pc = "generate"]
  /\ UNCHANGED << loggerVars, serial >>

\* createNewLogFile: generateLogFileName(ctx, name, time.Now()) and the
\* return on its error (part_013:358-361)
NameGenerate ==
  /\ naming.pc = "generate"
  /\ LET c == naming.call
         r == generateLogFileName(c.cancel = "between", naming.dir, c.statErr,
                                  c.baseName, c.t)
     IN naming' = [naming EXCEPT !.called = TRUE, !.gen = r,
                                 !.pc = IF r.err THEN "done" ELSE "open",
                                 !.err = r.err]
  /\ UNCHANGED << loggerVars, serial >>

\* createNewLogFile: os.OpenFile with O_APPEND|O_CREATE|O_WRONLY
\* (part_013:363-371)
NameOpen ==
  /\ naming.pc = "open"
  /\ \E fails \in BOOLEAN :
       naming' = IF fails
                 THEN [naming EXCEPT !.pc = "done", !.err = TRUE]
                 ELSE [naming EXCEPT !.pc = "done", !.file = naming.gen.name,
                                     !.dir = @ \cup {naming.gen.name}]
  /\ UNCHANGED << loggerVars, serial >>


(* --------------------------- specifications --------------------------- *)
ProducerStep(p, lens, maxDef, faults) ==
  \/ LogGate(p, lens) \/ LogCheckDisk(p, maxDef, faults) \/ LogLoadDrops(p) \/ LogLoadLogged(p)
  \/ LogStoreLogged(p) \/ SendCheck(p) \/ SendSelect(p)

\* the loop of processLogs while it keeps running
ConsumerLoop(c, faults) ==
  \/ ConsRetStart(c) \/ ConsSelect(c) \/ ConsRecv(c) \/ ConsTick(c)
  \/ ConsSize(c) \/ ConsRotOpen(c, faults) \/ ConsRotSwap(c, faults)
  \/ ConsWrite(c, faults) \/ ConsStat(c, faults)

ConsumerStep(c, faults) ==
  \/ ConsumerLoop(c, faults) \/ ConsClosed(c) \/ ConsCtxDone(c)

InitStep(limit, faults, cfgs) ==
  \/ InitCall(limit, faults, cfgs) \/ InitReconf \/ InitCreate(faults) \/ InitStore \/ InitStart

ShutdownStep(limit, faults) ==
  \/ ShutdownCall(limit) \/ ShutdownGrace \/ ShutdownStop \/ ShutdownFile(faults)

\* the whole program, I/O faults included
Next ==
  \/ \E p \in Producers : ProducerStep(p, 1..MaxLen, MaxDeficit, TRUE) \/ CancelCtx(p)
  \/ \E c \in Consumers : ConsumerStep(c, TRUE)
  \/ InitStep(MaxInits, TRUE, UserConfigs)
  \/ ShutdownStep(MaxShutdowns, TRUE)

Spec == Init /\ [][Next]_vars

\* producers against an initialised logger whose consumer is not scheduled,
\* with Shutdown
SendNext ==
  \/ \E p \in Producers : ProducerStep(p, {1}, MaxDeficit, FALSE)
  \/ InitStep(1, FALSE, SizeConfigs)
  \/ ShutdownStep(1, FALSE)

SendSpec == Init /\ [][SendNext]_vars

\* one initialisation, then producers and the consumer, no I/O fault, no
\* reconfiguration, no shutdown; goroutines are scheduled fairly
RunNext ==
  \/ \E p \in Producers : ProducerStep(p, 1..MaxLen, 0, FALSE) \/ CancelCtx(p)
  \/ \E c \in Consumers : ConsumerLoop(c, FALSE)
  \/ InitStep(1, FALSE, SizeConfigs)

RunSpec ==
  /\ Init /\ [][RunNext]_vars
  /\ \A c \in Consumers : WF_vars(ConsumerLoop(c, FALSE))
  /\ WF_vars(InitStep(1, FALSE, SizeConfigs))

\* initialisation and reconfiguration under load, no I/O fault
ReconfNext ==
  \/ \E p \in Solo : ProducerStep(p, 1..MaxLen, MaxDeficit, FALSE)
  \/ \E c \in Consumers : ConsumerLoop(c, FALSE) \/ ConsCtxDone(c)
  \/ InitStep(MaxInits, FALSE, SizeConfigs)

ReconfSpec == Init /\ [][ReconfNext]_vars

\* one initialisation, then load and Shutdown calls, no I/O fault
ShutNext ==
  \/ \E p \in Solo : ProducerStep(p, 1..MaxLen, MaxDeficit, FALSE)
  \/ \E c \in Consumers : ConsumerStep(c, FALSE)
  \/ InitStep(1, FALSE, SizeConfigs)
  \/ ShutdownStep(MaxShutdowns, FALSE)

ShutSpec == Init /\ [][ShutNext]_vars

\* one initialisation, then load on a volume that runs short of space
DiskNext ==
  \/ \E p \in Producers : ProducerStep(p, {MaxLen}, MaxDeficit, FALSE)
  \/ \E c \in Consumers : ConsumerLoop(c, FALSE)
  \/ InitStep(1, FALSE, SizeConfigs)

DiskSpec == Init /\ [][DiskNext]_vars

\* initialisation and reconfiguration with configurations that set any
\* subset of the fields; no other goroutine is scheduled
ConfNext == InitStep(MaxInits, FALSE, FieldConfigs)

ConfSpec == Init /\ [][ConfNext]_vars

\* Init calls with valid and invalid configurations, context and I/O faults
ErrNext == InitStep(MaxInits, TRUE, UserConfigs)

ErrSpec == Init /\ [][ErrNext]_vars

\* configurations that leave the per-file cap at zero
ZeroCapConfigs == { [ZeroConfig EXCEPT !.BufferSize = b] : b \in {1, 2} }

\* a record one unit longer than the default per-file cap
BigLen == DefaultMaxSizeMB * MB + 1

\* one initialisation with MaxSizeMB = 0, then a producer of large records
\* and the consumer
RotNext ==
  \/ \E p \in Solo : ProducerStep(p, {BigLen}, MaxDeficit, FALSE)
  \/ \E c \in Consumers : ConsumerLoop(c, FALSE)
  \/ InitStep(1, FALSE, ZeroCapConfigs)

RotSpec == Init /\ [][RotNext]_vars

\* configurations with a small and with the default directory-size limit
EvictConfigs ==
  { [ Level |-> 0, BufferSize |-> 2, MaxSizeMB |-> 1, MaxTotalSizeMB |-> x,
      MinDiskFreeMB |-> 0, TraceDepth |-> 0, RetentionPeriod |-> 0,
      RetentionCheckInterval |-> 0 ] : x \in {0, 1} }

\* a start in a directory of old log files, then log calls whose disk check
\* evicts, with removals that may fail
EvictNext ==
  \/ \E p \in Solo : ProducerStep(p, {1}, BigDeficit, TRUE)
  \/ InitStep(1, FALSE, EvictConfigs)

EvictSpec == (\E dir \in OldDirs : Boot(dir)) /\ [][EvictNext]_vars

\* configurations with retention enabled: a period of one hour, the check
\* interval left at its default or set to half a minute
RetConfigs ==
  { [ Level |-> 0, BufferSize |-> 2, MaxSizeMB |-> 1, MaxTotalSizeMB |-> 0,
      MinDiskFreeMB |-> 0, TraceDepth |-> 0, RetentionPeriod |-> Parts,
      RetentionCheckInterval |-> rc ] : rc \in {0, 1} }

\* a start with retention enabled in a directory that holds files, then
\* load with rotations and retention ticks, no I/O fault
RetNext ==
  \/ \E p \in Solo : ProducerStep(p, 1..MaxLen, MaxDeficit, FALSE)
  \/ \E c \in Consumers : ConsumerLoop(c, FALSE) \/ ConsRetTick(c) \/ ConsSweep(c, FALSE)
  \/ InitStep(1, FALSE, RetConfigs)

RetSpec == (\E dir \in RetDirs : Boot(dir)) /\ [][RetNext]_vars

\* RetSpec with time passing and fair scheduling: the consumer keeps
\* running, and whenever the age test of the retention case can succeed
\* again and again it eventually does, since files only grow older
RetLiveSpec ==
  /\ (\E dir \in RetDirs : Boot(dir)) /\ [][RetNext]_vars
  /\ WF_vars(InitStep(1, FALSE, RetConfigs))
  /\ \A c \in Consumers :
       /\ WF_vars(ConsumerLoop(c, FALSE) \/ ConsRetTick(c) \/ ConsSweep(c, FALSE))
       /\ SF_vars(ConsRetTick(c) /\ cpc'[c] = "sweep")


\* one serialize call on a fresh serializer, for every input
SerNext == SerializeJSON \/ SerializeText

SerSpec == (\E input \in SerInputs : BootWith(<< >>, input, NoCall)) /\ [][SerNext]_vars

\* one initialisation, then a producer and the consumer with write, create
\* and close faults and cancelled record contexts; the consumer is
\* scheduled fairly and a record waiting in the channel is received
FaultNext ==
  \/ \E p \in Solo : ProducerStep(p, 1..MaxLen, MaxDeficit, FALSE) \/ CancelCtx(p)
  \/ \E c \in Consumers : ConsumerLoop(c, TRUE)
  \/ InitStep(1, FALSE, SizeConfigs)

FaultSpec ==
  /\ Init /\ [][FaultNext]_vars
  /\ \A c \in Consumers : WF_vars(ConsumerLoop(c, TRUE)) /\ SF_vars(ConsRecv(c))
  /\ WF_vars(InitStep(1, FALSE, SizeConfigs))

\* one createNewLogFile call, for every time stamp, directory content,
\* cancellation point and os.Stat behaviour
NameNext == NameCreate \/ NameGenerate \/ NameOpen

NameSpec == (\E call \in NameCalls : BootWith(<< >>, NoInput, call)) /\ [][NameNext]_vars


\* initialisations and one Shutdown under load, no I/O fault; every
\* goroutine is scheduled fairly and a select whose Done or closed-channel
\* case is ready again and again takes it eventually
StopNext ==
  \/ \E p \in Solo : ProducerStep(p, {MaxLen}, 0, FALSE)
  \/ \E c \in Consumers : ConsumerStep(c, FALSE)
  \/ InitStep(MaxInits, FALSE, SizeConfigs)
  \/ ShutdownStep(1, FALSE)

StopSpec ==
  /\ Init /\ [][StopNext]_vars
  /\ \A c \in Consumers :
       /\ WF_vars(ConsumerStep(c, FALSE))
       /\ SF_vars(ConsCtxDone(c) \/ ConsClosed(c))
  /\ WF_vars(ShutdownStep(1, FALSE))


(* ------------------------------ properties ---------------------------- *)
AtSelect(p) == ppc[p] \in {"dropSel", "sendSel"}
ChanFull(ch) == ch # Nil /\ ~chans[ch].closed /\ Len(chans[ch].buf) >= chans[ch].cap
ChanClosed(ch) == ch # Nil /\ chans[ch].closed

\* C1: sendLogRecord never blocks its caller.  A producer at the select can
\* always take its step; the step returns to log(); on a channel holding
\* capacity-many records the record is not enqueued and droppedLogs grows
\* by exactly 1; on a closed channel the call still returns normally and
\* droppedLogs grows by exactly 1.
C1_SendNeverBlocks ==
  /\ [](\A p \in Producers : AtSelect(p) => ENABLED SendSelect(p))
  /\ [][\A p \in Producers :
          (AtSelect(p) /\ ppc'[p] # ppc[p]) =>
            /\ ppc'[p] = AfterSend(p)
            /\ (ChanFull(logChannel) \/ ChanClosed(logChannel)) =>
                 (chans' = chans /\ droppedLogs' = droppedLogs + 1)]_vars

\* both cases of C1 have happened: a send on a full channel and a send on
\* a closed channel have returned
C1_Witness ==
  /\ hist.fullDrops > 0 /\ hist.recovered > 0
  /\ \A p \in Producers : ppc[p] = "idle"

\* C2: with no consumer running, of the K sends made on a channel created
\* with F free slots exactly min(K, F) are accepted and droppedLogs grows by
\* exactly K - min(K, F) (besides the drops of the disk-space check), in
\* every interleaving of the senders.
C2_AcceptedMinKF ==
  (logChannel # Nil /\ ~loggerDisabled) =>
    LET F == chans[logChannel].cap
        K == hist.sends
    IN /\ Len(chans[logChannel].buf) = Min(K, F)
       /\ Cardinality(hist.accepted) = Min(K, F)
       /\ droppedLogs = hist.diskDrops + (K - Min(K, F))

\* capacity 1, two sends by two producers, one accepted, one dropped
C2_Witness ==
  /\ logChannel # Nil /\ ~loggerDisabled
  /\ chans[logChannel].cap = 1 /\ hist.sends = 2
  /\ \A p \in Producers : pcalls[p] = 1 /\ ppc[p] = "idle"
  /\ Len(chans[logChannel].buf) = 1
  /\ droppedLogs = hist.diskDrops + 1

Written(r) == \E i \in 1..Len(wlog) : wlog[i].rec = r
Queued(r) == \E ch \in DOMAIN chans : \E i \in 1..Len(chans[ch].buf) : chans[ch].buf[i] = r
InHand(r) == \E c \in Consumers : crec[c] = r
Handling(c) == cpc[c] \in {"size", "rotOpen", "rotSwap", "write", "stat"}

\* C3: two records of one producer are written in the order of their log
\* calls whenever both are written, also across a reconfiguration.
C3_ProducerOrder ==
  \A i, j \in 1..Len(wlog) :
    ( /\ ~wlog[i].rec.syn /\ ~wlog[j].rec.syn
      /\ wlog[i].rec.p = wlog[j].rec.p
      /\ wlog[i].rec.n < wlog[j].rec.n ) => i < j

\* C4: with a running consumer, no I/O error, no reconfiguration and no
\* shutdown every accepted record is eventually written.  A record that is
\* neither queued nor in the consumer's hand can no longer be written, so
\* the claim requires every accepted record to be queued, in hand or
\* written in every state.
C4_AcceptedNotLost ==
  \A r \in hist.accepted : Queued(r) \/ InHand(r) \/ Written(r)

\* C5: when Shutdown returns nil after closing the file, every record
\* that was in the channel when Shutdown was called has been written.
C5_DrainedBeforeClose ==
  (ctl = "idle" /\ ctlRes = "sd:nil" /\ hist.lastSd = "closed") =>
    \A r \in hist.snap : Written(r)

\* C6: a consumer started by one initialisation never dequeues from the
\* channel, nor writes to the file, that a later initialisation installed.
C6_OldConsumerRetired ==
  /\ \A c \in Consumers : Handling(c) => cchan[c] <= c
  /\ \A i \in 1..Len(wlog) : files[wlog[i].file].inst <= wlog[i].by

\* C7: at most one handle is open for writing: an open handle is the active
\* file, or the new file a running rotation or initialisation has created
\* and not yet published; whenever a new file becomes the active file the
\* previously active file has been closed.
C7_OneOpenHandle ==
  \A f \in FileIds :
    files[f].open =>
      \/ f = currentFile
      \/ \E c \in Consumers : cpc[c] = "rotSwap" /\ cnew[c] = f
      \/ ctl = "store" /\ ctlNew = f

\* C8: a Shutdown call made after a Shutdown that returned nil returns nil
\* and changes nothing: channel, files and flags are as before.
C8_SecondShutdownNoop ==
  [][(ctl = "idle" /\ ctlRes = "sd:nil" /\ nShutdowns' # nShutdowns) =>
       /\ ctl' = "idle" /\ ctlRes' = "sd:nil"
       /\ UNCHANGED << isInitialized, loggerDisabled, cfgVars, chans, logChannel,
                       ctxDone, processCtx, fileVars, dropVars, diskFullLogged,
                       prodVars, consVars, wlog >>]_vars

\* a Shutdown that closed channel and file returned nil, and a second
\* Shutdown call has returned nil after it
C8_Witness ==
  /\ ctl = "idle" /\ ctlRes = "sd:nil" /\ hist.lastSd = "noop" /\ hist.sdNil = 2
  /\ loggerDisabled /\ logChannel # Nil /\ chans[logChannel].closed
  /\ ~files[currentFile].open

\* C9: a record whose length plus the tracked size exceeds the cap is not
\* skipped at the rotation; it is written after exactly one rotation, to
\* the new file, whose size after the write is the record's length.
C9_RotateOnceThenWrite ==
  /\ \A k \in hist.skipped : k.at # "rotate"
  /\ \A i \in 1..Len(wlog) :
       wlog[i].rotated =>
         /\ wlog[i].size = wlog[i].rec.len
         /\ \A j \in 1..(i - 1) : wlog[j].file # wlog[i].file

\* C10: a log call whose disk-space check finds a deficit that eviction
\* cannot close is rejected: checkDiskSpace returns an error (and log()
\* counts the drop without enqueueing).
C10_RejectedWhileFull == hist.check.deficit => hist.check.err

\* C11: within a disk-full episode the already-reported flag is set by the
\* first failing check and cleared only by a check that succeeds: a step
\* that clears diskFullLogged is a check that left no unclosable deficit.
C11_FlagClearedOnSuccess ==
  [][(diskFullLogged /\ ~diskFullLogged') => ~hist'.check.deficit]_vars

\* C12: the active file is never deleted from disk, neither by eviction
\* nor while a rotation or an initialisation has created a file it has not
\* yet published.
C12_ActiveFileExists ==
  currentFile # Nil => files[currentFile].exists

\* C13: loggedDrops <= droppedLogs in every state, for every interleaving
\* of concurrent log calls.
C13_ReportedAtMostTotal == loggedDrops <= droppedLogs

\* two producers are inside log() between the load of droppedLogs and the
\* store of loggedDrops with different observations, drops having been
\* reported already
C13_Witness ==
  /\ loggedDrops > 0 /\ loggedDrops < droppedLogs
  /\ \E p, q \in Producers :
       /\ p # q /\ ppc[p] = "storeLogged" /\ ppc[q] = "storeLogged"
       /\ pcur[p] # pcur[q]

\* C14: neither droppedLogs nor loggedDrops ever decreases.
C14_CountersMonotonic ==
  [][droppedLogs' >= droppedLogs /\ loggedDrops' >= loggedDrops]_vars

\* a record a consumer can still receive: it is queued in the current
\* channel or in a channel a consumer is blocked on
Dequeuable(r) ==
  \E ch \in DOMAIN chans :
    /\ \E i \in 1..Len(chans[ch].buf) : chans[ch].buf[i] = r
    /\ \/ ch = logChannel
       \/ \E c \in Consumers : cpc[c] = "wait" /\ cchan[c] = ch

\* C15: a reconfiguration loses no accepted record: an accepted record is
\* written, in a consumer's hand, or still queued where a consumer will
\* receive it; the channel a reconfiguration replaces has been drained.
C15_ReconfKeepsAccepted ==
  \A r \in hist.accepted : Written(r) \/ InHand(r) \/ Dequeuable(r)

\* C16: a reconfiguration whose config leaves a field at its zero value
\* leaves the running value of that field as it was, for every field,
\* retention period and check interval included.
C16_ZeroFieldsPreserved ==
  [][(nInits' # nInits /\ isInitialized) =>
       LET u == hist'.cfg IN
       /\ u.Level = 0 => logLevel' = logLevel
       /\ u.BufferSize = 0 => bufferSize' = bufferSize
       /\ u.MaxSizeMB = 0 => maxSizeMB' = maxSizeMB
       /\ u.MaxTotalSizeMB = 0 => maxTotalSizeMB' = maxTotalSizeMB
       /\ u.MinDiskFreeMB = 0 => minDiskFreeMB' = minDiskFreeMB
       /\ u.TraceDepth = 0 => traceDepth' = traceDepth
       /\ u.RetentionPeriod = 0 => retentionPeriod' = retentionPeriod
       /\ u.RetentionCheckInterval = 0 => retentionCheck' = retentionCheck]_vars

\* C17: after a reconfiguration that passed validation and whose config
\* names level L, the running minimum level is L.
C17_LevelTakesEffect ==
  [][(nInits' # nInits /\ isInitialized /\ ctl' = "reconf") =>
       logLevel' = hist'.cfg.Level]_vars

\* C18: initialised from a configuration whose MaxSizeMB is 0, the logger
\* never rotates: no consumer is inside a rotation, no record was written
\* after a rotation, and every file was created by the initialisation.
C18_NoRotationWhenZero ==
  (nInits > 0 /\ hist.cfg.MaxSizeMB = 0) =>
    /\ \A c \in Consumers : cpc[c] \notin {"rotOpen", "rotSwap"}
    /\ \A i \in 1..Len(wlog) : ~wlog[i].rotated
    /\ \A f \in FileIds : files[f].by = 0

\* C19: initialised from a configuration whose MaxTotalSizeMB and
\* MinDiskFreeMB are 0, the disk-space check never rejects a record and
\* never deletes a file.
C19_NoEnforcementWhenZero ==
  (nInits > 0 /\ hist.cfg.MaxTotalSizeMB = 0 /\ hist.cfg.MinDiskFreeMB = 0) =>
    /\ hist.diskDrops = 0
    /\ \A f \in FileIds : files[f].exists

\* C20: a log call made while the logger is uninitialised or with a level
\* below the minimum is a no-op.  Every call either enters the disk-space
\* check, and then the logger is initialised and the level is at least the
\* minimum, or returns having changed nothing: no channel, counter, flag
\* or file changes.
C20_GatedCallNoop ==
  [][\A p \in Producers :
       pcalls'[p] # pcalls[p] =>
         IF ppc'[p] = "check"
         THEN isInitialized /\ prec'[p].lv >= logLevel
         ELSE /\ ppc'[p] = "idle" /\ prec'[p] = NoRec
              /\ UNCHANGED << chans, droppedLogs, loggedDrops, diskFullLogged,
                              files, currentFile, currentSize, wlog >>
              /\ hist'.accepted = hist.accepted /\ hist'.sends = hist.sends
              /\ hist'.check = hist.check]_vars

\* both cases of C20 have happened: calls made before the initialisation
\* and calls below the minimum level on the running logger have returned,
\* and nothing was sent, dropped or checked
C20_Witness ==
  /\ hist.gated = {"uninit", "below"}
  /\ isInitialized /\ logLevel > LevelDebug
  /\ \A p \in Producers : pcalls[p] = MaxCalls /\ ppc[p] = "idle"
  /\ hist.sends = 0 /\ droppedLogs = 0 /\ loggedDrops = 0
  /\ \A ch \in DOMAIN chans : chans[ch].buf = << >>

\* C21: cancelling the context of an admitted record does not keep it from
\* being written: no record whose context is cancelled is dropped from the
\* consumer's hand, at the rotation or anywhere else.
C21_CancelledStillWritten ==
  \A k \in hist.skipped : ~RecCtxDone(k.rec)

\* C24: a Shutdown whose context is cancelled during the grace period
\* returns the context's error and leaves the logger running: initialised,
\* not disabled, channel open, consumer alive, active file open, nothing
\* changed.
C24_CancelledShutdownKeepsRunning ==
  [][(ctl = "sdGrace" /\ ctlRes' = "sd:err") =>
       /\ ctl' = "idle"
       /\ isInitialized' /\ ~loggerDisabled'
       /\ logChannel' # Nil /\ ~chans'[logChannel'].closed
       /\ processCtx' # Nil /\ processCtx' \notin ctxDone'
       /\ cpc'[processCtx'] \notin {"none", "done"}
       /\ currentFile' # Nil /\ files'[currentFile'].open
       /\ UNCHANGED << isInitialized, loggerDisabled, cfgVars, chans, logChannel,
                       ctxDone, processCtx, fileVars, dropVars, diskFullLogged,
                       prodVars, consVars, wlog >>]_vars

\* a Shutdown was cut short by its context and a later Shutdown closed
\* channel and file: of two calls only the second returned nil, and it did
\* not find the logger stopped
C24_Witness ==
  /\ ctl = "idle" /\ nShutdowns = 2 /\ ctlRes = "sd:nil"
  /\ hist.lastSd = "closed" /\ hist.sdNil = 1
  /\ chans[logChannel].closed /\ ~files[currentFile].open

\* C30: a log call that observes total > reported first sets reported to
\* the observed total, then makes exactly one send, of a synthetic
\* Error-level record with dropped_count = observed total - observed
\* reported and total_dropped = observed total; when that send is dropped
\* the total grows by one and reported keeps the advanced value.
C30_DropSummary ==
  [][\A p \in Producers :
       /\ (ppc[p] = "loadLogged" /\ ppc'[p] # "loadLogged") =>
            (ppc'[p] = "storeLogged" <=> pcur[p] > loggedDrops)
       /\ (ppc[p] = "storeLogged" /\ ppc'[p] # "storeLogged") =>
            /\ loggedDrops' = pcur[p]
            /\ ppc'[p] = "dropChk"
            /\ UNCHANGED << chans, droppedLogs >>
       /\ (ppc'[p] = "dropChk" /\ ppc[p] # "dropChk") => ppc[p] = "storeLogged"
       /\ (ppc[p] = "dropChk" /\ ppc'[p] # "dropChk") => ppc'[p] \in {"dropSel", "sendChk"}
       /\ (ppc[p] = "dropSel" /\ ppc'[p] # "dropSel") => ppc'[p] = "sendChk"
       /\ (ppc[p] \in {"dropChk", "dropSel"} /\ ppc'[p] = "sendChk") =>
            /\ hist'.sends = hist.sends + 1
            /\ loggedDrops' = loggedDrops
            /\ \/ /\ droppedLogs' = droppedLogs + 1
                  /\ chans' = chans
               \/ /\ droppedLogs' = droppedLogs
                  /\ logChannel # Nil
                  /\ chans' = [chans EXCEPT ![logChannel].buf =
                        Append(@, [p |-> p, n |-> pcalls[p], syn |-> TRUE,
                                   lv |-> LevelError, len |-> DropLen,
                                   dc |-> pcur[p] - plogged[p], td |-> pcur[p]])]]_vars

\* a call stored the observed total and its summary was dropped on the
\* full channel: reported is positive, no summary with that total was ever
\* admitted, every producer is past its summary, and the total is ahead
C30_Witness ==
  /\ ~loggerDisabled /\ logChannel # Nil /\ ChanFull(logChannel)
  /\ loggedDrops >= 1 /\ droppedLogs > loggedDrops
  /\ hist.fullDrops >= 2 /\ hist.recovered = 0
  /\ \A r \in hist.accepted : r.syn => r.td < loggedDrops
  /\ \E r \in hist.accepted : r.syn /\ r.dc >= 1
  /\ \A p \in Producers : ppc[p] \in {"idle", "sendChk", "sendSel"}

\* C23: when Init returns an error on a running logger, the running
\* configuration values, the active file, the channel and the consumer are
\* as they were before the call.
C23_FailedInitKeepsState ==
  (ctl = "idle" /\ ctlRes = "init:err" /\ hist.pre.running) =>
    RunningState = hist.pre

\* C28: one eviction removes eligible files (log files other than the
\* active one) oldest first: a file is removed only if every strictly
\* older eligible file was removed or failed to be removed, and only
\* while the sizes of the older files already removed stay below the
\* required amount; it goes on until that amount is freed or no eligible
\* file is left; the required amount is the larger of the free-space
\* deficit and the directory-size excess.
C28_EvictOldestFirst ==
  [][\A p \in Producers :
       (ppc[p] = "check" /\ ppc'[p] # "check") =>
         LET E == {f \in FileIds : files[f].exists /\ f # currentFile}
             R == {f \in FileIds : files[f].exists /\ ~files'[f].exists}
             F == hist'.check.failed
             free == hist'.check.free
             minFree == minDiskFreeMB * MB
             maxTotal == maxTotalSizeMB * MB
             dirSize == SumSizes(files, Existing)
             deficit == IF free < minFree THEN minFree - free ELSE 0
             excess == IF maxTotal > 0 /\ dirSize > maxTotal THEN dirSize - maxTotal ELSE 0
             required == IF deficit > excess THEN deficit ELSE excess
         IN /\ R \subseteq E /\ R \cap F = {}
            /\ \A f \in R : \A g \in E :
                 files[g].mod < files[f].mod => g \in R \cup F
            /\ \A f \in R :
                 SumSizes(files, {g \in R : files[g].mod < files[f].mod}) < required
            /\ SumSizes(files, R) < required => E \subseteq R \cup F
            /\ \A f \in FileIds : files'[f].exists => files'[f] = files[f]]_vars

\* an eviction removed the two oldest files and stopped: a newer eligible
\* file whose removal would not have failed is still there
C28_Witness ==
  /\ currentFile # Nil
  /\ \E f, g, h \in FileIds \ {currentFile} :
       /\ files[f].mod < files[g].mod /\ files[g].mod < files[h].mod
       /\ ~files[f].exists /\ ~files[g].exists
       /\ files[h].exists /\ h \notin hist.check.failed
  /\ ~hist.check.err

\* C22: a sweep is made only with retention enabled and a watermark set;
\* it removes every file of the logger (the active one excepted) whose
\* modification time is the watermark and no file with another
\* modification time, and afterwards the watermark is the modification
\* time of the oldest remaining file with the prefix and the extension
\* that is not the active file, or zero when there is none.
C22_SweepAtWatermark ==
  [][\A c \in Consumers :
       /\ (cpc'[c] = "sweep" /\ cpc[c] # "sweep") =>
            retentionPeriod > 0 /\ retentionCheck > 0 /\ earliestFileTime # 0
       /\ (cpc[c] = "sweep" /\ cpc'[c] # "sweep") =>
            LET R == {f \in FileIds : files[f].exists /\ ~files'[f].exists}
                E == {f \in FileIds : files'[f].exists /\ files'[f].own /\ f # currentFile'}
            IN /\ \A f \in R : files[f].mod = earliestFileTime
               /\ \A f \in Existing :
                    (files[f].own /\ files[f].mod = earliestFileTime /\ f # currentFile)
                      => f \in R
               /\ IF E = {} THEN earliestFileTime' = 0
                  ELSE /\ \E f \in E : files'[f].mod = earliestFileTime'
                       /\ \A f \in E : files'[f].mod >= earliestFileTime']_vars

\* a sweep removed the oldest file of the logger and kept a newer one,
\* written by this run and rotated away: the watermark now stands at
\* that file's time
C22_Witness ==
  /\ \E f \in hist.swept : files[f].own
  /\ \E g \in Existing :
       /\ g # currentFile /\ files[g].own /\ files[g].size > 0 /\ files[g].inst # 0
       /\ earliestFileTime = files[g].mod
       /\ \A f \in hist.swept : files[f].mod < files[g].mod
  /\ \A c \in Consumers : cpc[c] # "sweep"

\* C29: every file a retention sweep removes has the configured prefix
\* (and extension), has the watermark as its modification time and is not
\* the active file; a file with another base name is never removed.
C29_SweepOnlyOwnFiles ==
  [][\A c \in Consumers :
       (cpc[c] = "sweep" /\ cpc'[c] # "sweep") =>
         \A f \in FileIds :
           (files[f].exists /\ ~files'[f].exists) =>
             files[f].own /\ files[f].mod = earliestFileTime /\ f # currentFile]_vars

(* reading an output back as JSON (RFC 8259): strings with their escapes,
   integers, true, false, null, arrays of these, and one object whose
   member values are strings or arrays.  The escapes \b \f \r \u cannot
   occur in an output and are not read. *)
ControlBytes == {c \in Alphabet : ByteCode[c] < 32}
NoParse == [ok |-> FALSE, v |-> NilVal, a |-> << >>, m |-> << >>, n |-> 0]
Matches(o, i, lit) == i + Len(lit) - 1 <= Len(o) /\ SubSeq(o, i, i + Len(lit) - 1) = lit
IsDigit(c) == \E k \in 1..10 : DigitChars[k] = c
DigitVal(c) == (CHOOSE k \in 1..10 : DigitChars[k] = c) - 1

\* the rest of a JSON string after its opening quote
RECURSIVE StrBody(_, _, _)
StrBody(o, j, acc) ==
  IF j > Len(o) THEN NoParse
  ELSE IF o[j] = Quote THEN [NoParse EXCEPT !.ok = TRUE, !.v = StrVal(acc), !.n = j + 1]
  ELSE IF o[j] = Backslash
       THEN IF j + 1 > Len(o) THEN NoParse
            ELSE IF o[j + 1] \in {Quote, Backslash, "/"}
                 THEN StrBody(o, j + 2, Append(acc, o[j + 1]))
            ELSE IF o[j + 1] = "t" THEN StrBody(o, j + 2, Append(acc, "\t"))
            ELSE IF o[j + 1] = "n" THEN StrBody(o, j + 2, Append(acc, "\n"))
            ELSE NoParse
  ELSE IF o[j] \in ControlBytes THEN NoParse
  ELSE StrBody(o, j + 1, Append(acc, o[j]))

RECURSIVE DigitsEnd(_, _)
DigitsEnd(o, j) == IF j <= Len(o) /\ IsDigit(o[j]) THEN DigitsEnd(o, j + 1) ELSE j

RECURSIVE NatOf(_)
NatOf(ds) == IF ds = << >> THEN 0
             ELSE 10 * NatOf(SubSeq(ds, 1, Len(ds) - 1)) + DigitVal(ds[Len(ds)])

\* a string, an integer, true, false or null at i
ParseScalar(o, i) ==
  IF i > Len(o) THEN NoParse
  ELSE IF o[i] = Quote THEN StrBody(o, i + 1, << >>)
  ELSE IF Matches(o, i, << "t", "r", "u", "e" >>)
       THEN [NoParse EXCEPT !.ok = TRUE, !.v = BoolVal(TRUE), !.n = i + 4]
  ELSE IF Matches(o, i, << "f", "a", "l", "s", "e" >>)
       THEN [NoParse EXCEPT !.ok = TRUE, !.v = BoolVal(FALSE), !.n = i + 5]
  ELSE IF Matches(o, i, << "n", "u", "l", "l" >>)
       THEN [NoParse EXCEPT !.ok = TRUE, !.v = NilVal, !.n = i + 4]
  ELSE LET d == IF o[i] = "-" THEN i + 1 ELSE i
           e == DigitsEnd(o, d)
       IN IF e = d \/ (o[d] = "0" /\ e > d + 1) THEN NoParse
          ELSE [NoParse EXCEPT
                  !.ok = TRUE, !.n = e,
                  !.v = IntVal((IF d > i THEN -1 ELSE 1) * NatOf(SubSeq(o, d, e - 1)))]

\* the elements of an array after its opening bracket
RECURSIVE Items(_, _, _)
Items(o, j, acc) ==
  LET r == ParseScalar(o, j) IN
  IF ~r.ok \/ r.n > Len(o) THEN NoParse
  ELSE IF o[r.n] = "," THEN Items(o, r.n + 1, Append(acc, r.v))
  ELSE IF o[r.n] = "]" THEN [NoParse EXCEPT !.ok = TRUE, !.a = Append(acc, r.v), !.n = r.n + 1]
  ELSE NoParse

\* the value of a member: a string or an array
ParseValue(o, i) ==
  IF i > Len(o) THEN NoParse
  ELSE IF o[i] = "["
       THEN IF i + 1 <= Len(o) /\ o[i + 1] = "]"
            THEN [NoParse EXCEPT !.ok = TRUE, !.n = i + 2]
            ELSE Items(o, i + 1, << >>)
  ELSE IF o[i] = Quote THEN StrBody(o, i + 1, << >>)
  ELSE NoParse

\* the members of an object after its opening brace: pairs [k, arr, v, a]
RECURSIVE Members(_, _, _)
Members(o, j, acc) ==
  IF j > Len(o) \/ o[j] # Quote THEN NoParse
  ELSE LET key == StrBody(o, j + 1, << >>) IN
       IF ~key.ok \/ key.n > Len(o) \/ o[key.n] # ":" THEN NoParse
       ELSE LET val == ParseValue(o, key.n + 1)
                mem == [k |-> key.v.s, arr |-> (o[key.n + 1] = "["), v |-> val.v, a |-> val.a]
            IN IF ~val.ok \/ val.n > Len(o) THEN NoParse
               ELSE IF o[val.n] = "," THEN Members(o, val.n + 1, Append(acc, mem))
               ELSE IF o[val.n] = "}"
                    THEN [NoParse EXCEPT !.ok = TRUE, !.m = Append(acc, mem), !.n = val.n + 1]
               ELSE NoParse

\* a line holding one object and nothing else
ParseLine(o) ==
  IF Len(o) < 3 \/ o[1] # "{" THEN NoParse
  ELSE IF o[2] = "}" THEN [NoParse EXCEPT !.ok = (o = << "{", "}", "\n" >>)]
  ELSE LET r == Members(o, 2, << >>) IN
       IF r.ok /\ r.n = Len(o) /\ o[r.n] = "\n" THEN r ELSE NoParse

KeyTime == << "t", "i", "m", "e" >>
KeyLevel == << "l", "e", "v", "e", "l" >>
KeyTrace == << "t", "r", "a", "c", "e" >>
KeyFields == << "f", "i", "e", "l", "d", "s" >>

\* the keys an output must have, in order
ExpectedKeys(c) ==
  (IF HasFlag(c.flags, FlagShowTimestamp) THEN << KeyTime >> ELSE << >>)
  \o (IF HasFlag(c.flags, FlagShowLevel) THEN << KeyLevel >> ELSE << >>)
  \o (IF c.trace # << >> THEN << KeyTrace >> ELSE << >>)
  \o (IF c.args # << >> THEN << KeyFields >> ELSE << >>)

\* C25: the JSON output is one line, ended by its only line feed, holding
\* one well-formed object whose keys are, in this order, time (iff the
\* timestamp flag), level (iff the level flag), trace (iff the trace is not
\* empty) and fields (an array with one element per argument); the first
\* three values are strings.
C25_JSONWellFormed ==
  (serial.done /\ serial.call.format = "json") =>
    LET o == serial.buf
        p == ParseLine(o)
    IN /\ \A k \in 1..Len(o) : (o[k] = "\n") <=> (k = Len(o))
       /\ p.ok
       /\ [k \in 1..Len(p.m) |-> p.m[k].k] = ExpectedKeys(serial.call)
       /\ \A k \in 1..Len(p.m) :
            IF p.m[k].k = KeyFields
            THEN p.m[k].arr /\ Len(p.m[k].a) = Len(serial.call.args)
            ELSE ~p.m[k].arr

\* C27: with both flags set, reading the JSON output back gives the level
\* name, the trace string and the arguments that were serialized, string
\* arguments byte for byte.
C27_JSONRoundTrip ==
  (/\ serial.done /\ serial.call.format = "json"
   /\ serial.call.flags = FlagShowTimestamp + FlagShowLevel) =>
    LET c == serial.call
        p == ParseLine(serial.buf)
    IN /\ p.ok
       /\ \E k \in 1..Len(p.m) :
            p.m[k].k = KeyLevel /\ p.m[k].v = StrVal(levelToString(c.level))
       /\ c.trace # << >> =>
            \E k \in 1..Len(p.m) : p.m[k].k = KeyTrace /\ p.m[k].v = StrVal(c.trace)
       /\ c.args # << >> =>
            \E k \in 1..Len(p.m) : p.m[k].k = KeyFields /\ p.m[k].a = c.args

Handled == Len(wlog) + Cardinality(hist.skipped)
SkippedRec(r) == \E s \in hist.skipped : s.rec = r

\* C31: a write error or a rotation error while one record is handled does
\* not stop the loop.  The goroutine that skipped a record is back at its
\* select, the skipped record is not written later (no retry), and once an
\* error has happened every record the channel accepted is still dequeued
\* and handled to the end (written or skipped in turn).
C31_ErrorKeepsLoopRunning ==
  /\ [](\A c \in Consumers : cpc[c] # "done")
  /\ [](\A r \in hist.accepted : ~(SkippedRec(r) /\ Written(r)))
  /\ \A n \in 1..(MaxCalls + 1) :
       (hist.skipped # {} /\ Cardinality(hist.accepted) >= n) ~> (Handled >= n)

\* a record was skipped on an error and a record accepted after it has
\* been written
C31_Witness ==
  /\ hist.skipped # {}
  /\ \E i \in 1..Len(wlog) : \E s \in hist.skipped :
       /\ ~wlog[i].rec.syn /\ ~s.rec.syn
       /\ s.at \in {"fault", "rotate"}
       /\ wlog[i].rec.n > s.rec.n

\* the goroutine fails to close the old file in this step of rotateLogFile
CloseFailsNow(c) ==
  /\ cpc[c] = "rotSwap"
  /\ [rec |-> crec[c], at |-> "close"] \in hist'.skipped \ hist.skipped

\* C32: when closing the old file fails during a rotation, the handle that
\* was just opened is closed, the rotation fails (the record is skipped),
\* and the active-file pointer and the tracked size keep their values: they
\* still refer to the old file.
C32_CloseFailureKeepsOldFile ==
  [][\A c \in Consumers :
       CloseFailsNow(c) =>
         /\ ~files'[cnew[c]].open
         /\ currentFile' = currentFile /\ currentFile' # cnew[c]
         /\ currentSize' = currentSize
         /\ cpc'[c] = "select" /\ ~Written(crec[c])']_vars

\* a rotation failed at the close of the old file, which held data: the
\* file it had created is closed and empty, the old file is still active
\* with its tracked size
C32_Witness ==
  \E s \in hist.skipped : \E f \in FileIds :
    /\ s.at = "close"
    /\ files[f].by # 0 /\ ~files[f].open /\ files[f].size = 0
    /\ f # currentFile /\ currentFile # Nil
    /\ files[currentFile].open
    /\ currentSize > 0 /\ currentSize = files[currentFile].size

\* the candidates of the call under examination and those the directory
\* held when generateLogFileName examined it
NameCands == CandidateNames(naming.call.baseName, naming.call.t)
AllTaken == \A k \in 1..Len(NameCands) : NameCands[k] \in naming.call.dir
FirstFree(fn) ==
  \E k \in 1..Len(NameCands) :
    /\ NameCands[k] = fn
    /\ \A j \in 1..(k - 1) : NameCands[j] \in naming.call.dir

\* C33 as stated: generateLogFileName returns the first candidate, in the
\* order tenth of a second, then 2 to 9 digits, that does not exist in the
\* directory; it returns an error if and only if every candidate exists, and
\* then createNewLogFile fails.
C33_ErrorIffAllTaken ==
  naming.called =>
    /\ naming.gen.err <=> AllTaken
    /\ ~naming.gen.err => naming.gen.name \notin naming.call.dir /\ FirstFree(naming.gen.name)
    /\ naming.gen.err => naming.err /\ naming.file = << >>

\* C33, amended: as above when the context is not cancelled and os.Stat
\* can examine the directory; generateLogFileName also returns an error,
\* and createNewLogFile fails, when the context is cancelled by the time it
\* is called or when os.Stat fails with an error other than "not found".
C33_FirstFreeName ==
  naming.called =>
    /\ naming.gen.err <=>
         (naming.call.cancel = "between" \/ naming.call.statErr \/ AllTaken)
    /\ ~naming.gen.err => naming.gen.name \notin naming.call.dir /\ FirstFree(naming.gen.name)
    /\ naming.gen.err => naming.err /\ naming.file = << >>

\* the tenth-of-second name and the two-digit name were taken, the call
\* returned the three-digit name and the file was created under it
C33_Witness ==
  /\ naming.pc = "done" /\ ~naming.err
  /\ naming.file = NameCands[3]
  /\ NameCands[1] \in naming.call.dir /\ NameCands[2] \in naming.call.dir
  /\ naming.file \in naming.dir \ naming.call.dir

\* processLogs goroutine c has been started and has not returned
Running(c) == cpc[c] \notin {"none", "done"}

\* C34: once Shutdown has cancelled the consumer's context and closed the
\* channel, every processLogs goroutine that is running eventually returns
\* (Stopped), and a goroutine that has returned handles no record.
C34_ConsumersStopAfterShutdown ==
  /\ \A c \in Consumers : (ctl = "sdFile" /\ Running(c)) ~> (cpc[c] = "done")
  /\ [](\A c \in Consumers : cpc[c] = "done" => crec[c] = NoRec)

\* the sum of the dropped_count fields of a set of records
RECURSIVE SumDropped(_)
SumDropped(S) ==
  IF S = {} THEN 0
  ELSE LET r == CHOOSE x \in S : TRUE IN r.dc + SumDropped(S \ {r})

\* the drop summaries the channel has accepted
Summaries == {r \in hist.accepted : r.syn}

\* C35: no drop is announced twice.  Over all drop summaries produced, under
\* every interleaving of concurrent log calls, the dropped_count values add
\* up to at most the total-drop counter.
C35_NoDropAnnouncedTwice == SumDropped(Summaries) <= droppedLogs

\* callers' records the channel accepted that are neither queued, nor in a
\* goroutine's hand, nor written: they can no longer be written
LostRecords == {r \in hist.accepted : ~r.syn /\ ~Queued(r) /\ ~InHand(r) /\ ~Written(r)}

\* drops counted by log() and sendLogRecord: failed disk checks and sends
\* that did not enqueue
CountedDrops == hist.diskDrops + hist.sends - Cardinality(hist.accepted)

\* C36: every record that passed the initialisation and level gate is
\* accounted for: it is written (or still on its way), or it is counted in
\* droppedLogs.  The total-drop counter therefore covers, next to the drops
\* counted on the producers' side, every record that was lost after the
\* channel accepted it, write errors and rotation errors included.
C36_EveryRecordAccounted ==
  droppedLogs >= CountedDrops + Cardinality(LostRecords)

\* Shutdown has returned nil after closing the file and a later Init has
\* returned nil: the logger has been started again
Restarted ==
  /\ hist.lastSd = "closed" /\ ctl = "idle" /\ ctlRes = "init:nil" /\ isInitialized

\* C37: after a successful Shutdown followed by a successful Init the
\* logger works again.  A log call that passed the gate and the disk check
\* and finds room in the channel is not dropped: sendLogRecord goes on to
\* its select and the select enqueues the record.
C37_OperationalAfterRestart ==
  [][\A p \in Producers :
       ( /\ Restarted /\ Restarted'
         /\ ppc[p] \in {"sendChk", "sendSel"} /\ ppc'[p] # ppc[p]
         /\ ~ChanFull(logChannel) /\ ~ChanClosed(logChannel) )
       => /\ droppedLogs' = droppedLogs
          /\ ppc[p] = "sendSel" => Queued(prec[p])']_vars

\* a file of the logger (prefix and extension) that is not the active file
Eligible(f) ==
  f \in FileIds /\ files[f].exists /\ files[f].own /\ f # currentFile

\* C38: with retention enabled, every file of the logger other than the
\* active one is eventually deleted once it is older than the retention
\* period, also when it became eligible by a rotation after a start in a
\* directory without eligible files.  Every file grows older than the
\* period in the end, so an eligible file under a running consumer with a
\* retention ticker leads to the file being gone.
C38_ExpiredEventuallyDeleted ==
  \A f \in 1..(RetOld + MaxCalls + 1) :
    (Eligible(f) /\ \E c \in Consumers : cret[c] /\ cpc[c] # "done")
      ~> (f \in FileIds /\ ~files[f].exists)

\* C39: while rotation is enabled (maxSizeMB > 0) and no record is longer
\* than the cap, no log file grows beyond the cap: after every write the
\* real size of every file is at most maxSizeMB megabytes, whatever the
\* writes, rotations, stat outcomes and reconfigurations were.
C39_FileWithinCap ==
  maxSizeMB > 0 => \A f \in FileIds : files[f].size <= maxSizeMB * MB

\* C40: whenever a processLogs goroutine starts handling a record, the
\* tracked size currentSize equals the real size of the active file; in
\* particular it is 0 when the active file is the empty file a
\* reconfiguration has just adopted, so that the first record after a
\* reconfiguration does not rotate an empty file.
C40_TrackedSizeIsRealSize ==
  \A c \in Consumers :
    cpc[c] = "size" => currentSize = files[currentFile].size
====
